---- MODULE Spec2Model ----
(***************************************************************************)
(* Verification model of the serverless OTLP forwarder: the forwarder core *)
(* (span compactor, OTLP HTTP sender, processor), the stdout span exporter *)
(* with its sinks, and the envelope parser of the live-tail CLI.           *)
(***************************************************************************)
EXTENDS Integers, Sequences, FiniteSets, TLC

VARIABLES
    env,        \* forwarder process: the OTLP environment variables
    entry,      \* forwarder: entry point of the call in progress ("none" when idle)
    pc,         \* forwarder: "idle", "posting" (HTTP POST awaited) or "done"
    parseOut,   \* processor: the Result of parser.parse
    cBatch,     \* compactor: the batch given to compact_telemetry_payloads
    cCfg,       \* compactor: the configuration of that call
    cOut,       \* compactor: the Result of that call
    sUnit,      \* sender: the unit given to send_telemetry_batch
    stages,     \* processor: the stages run by the call, in order
    posts,      \* HTTP client: the POST requests issued by the call, in order
    resp,       \* HTTP client: what came back for the POST
    result,     \* the Result the call returned
    sinkKind,   \* sink: "stdout", "file" or "pipe"
    sinkOut,    \* sink: the bytes that reached the destination, each with its call
    stdoutLock, \* sink: the thread holding the process-wide stdout lock
    stdoutBuf,  \* sink: the bytes held by the stdout line buffer
    wpc,        \* sink: each thread's position in write_line
    wline,      \* sink: each thread's call (its number and its line)
    wres,       \* sink: the Result of each thread's last call
    wcalls,     \* sink: the number of write_line calls made
    xenv,       \* exporter process: its environment variables
    xargs,      \* exporter: the arguments and the environment of the call of new
    exporter,   \* exporter: the constructed OtlpStdoutSpanExporter
    xpc,        \* exporter: "idle", "exported" or "parsed"
    xBatch,     \* exporter: the batch given to export
    xLines,     \* exporter: the lines export gave to its output
    xResult,    \* exporter: the Result of export
    xParsed,    \* live tail: the Result of process_log_event_message on that line
    tArgs,      \* live tail: the command line (forward_only, otlp_endpoint)
    tpc,        \* live tail: "init", "loop", "final" or "exit"
    telemetry_buffer,  \* live tail: the units received and not yet flushed
    tRecv,      \* live tail: the number of units received so far
    tEvents,    \* live tail: the display_console and send_batch calls made, in order
    tResult,    \* live tail: the Result main returned
    pEvents,    \* span parser: the log events given to parse
    pResult,    \* span parser: what parse returned, or the panic that ended it
    kBatch,     \* compactor: three units to be compacted flat and in two steps
    kCfg,       \* compactor: the configuration of those calls
    kOut,       \* compactor: the Results of the flat and of the two-step compactions
    lenv,       \* events: the log level variables of the process environment
    MIN_LEVEL,  \* events: the OnceLock that caches the minimum event level
    minLevelEnv, \* events: the environment at the time MIN_LEVEL was initialised
    lCalls,     \* events: the calls of record_event_impl made, in order
    rBatch,     \* timeline renderer: the batch given to display_console
    rOrder,     \* timeline renderer: the iteration order of the span HashMap in that call
    rTables,    \* timeline renderer: the tables printed, by trace id
    bArgs,      \* timeline renderer: the arguments of a call of render_bar
    bBar        \* timeline renderer: the bar that call returned

fwdVars == <<env, entry, pc, parseOut, cBatch, cCfg, cOut, sUnit, stages, posts, resp, result>>
sinkVars == <<sinkKind, sinkOut, stdoutLock, stdoutBuf, wpc, wline, wres, wcalls>>
expVars == <<xenv, xargs, exporter, xpc, xBatch, xLines, xResult, xParsed>>
tailVars == <<tArgs, tpc, telemetry_buffer, tRecv, tEvents, tResult>>
spanVars == <<pEvents, pResult>>
assocVars == <<kBatch, kCfg, kOut>>
levelVars == <<lenv, MIN_LEVEL, minLevelEnv, lCalls>>
renderVars == <<rBatch, rOrder, rTables>>
barVars == <<bArgs, bBar>>
vars == <<fwdVars, sinkVars, expVars, tailVars, spanVars, assocVars, levelVars, renderVars, barVars>>

\* ------------------------------------------------------------------------
\* Bounds
\* ------------------------------------------------------------------------
MaxBatch == 2          \* longest batch the forwarder is run on
MaxLongBatch == 3      \* longest batch the compactor alone is run on

\* ------------------------------------------------------------------------
\* Generic helpers
\* ------------------------------------------------------------------------
None == <<>>
Some(x) == <<x>>
\* Result: Ok(v), or Err with the message, the context added by the callers
\* (outermost first) and, for a rejected request, the status and the body
Ok(v) == [ok |-> TRUE, val |-> v, err |-> "", ctx |-> <<>>, status |-> 0, body |-> <<>>]
Err(msg) == [ok |-> FALSE, val |-> <<>>, err |-> msg, ctx |-> <<>>, status |-> 0, body |-> <<>>]
Context(e, c) == [e EXCEPT !.ctx = <<c>> \o @]

RECURSIVE Flatten(_)
Flatten(ss) == IF ss = <<>> THEN <<>> ELSE Head(ss) \o Flatten(Tail(ss))

RECURSIVE SumSeq(_)
SumSeq(s) == IF s = <<>> THEN 0 ELSE Head(s) + SumSeq(Tail(s))

SeqsUpTo(S, n) == UNION { [1..k -> S] : k \in 0..n }

\* ------------------------------------------------------------------------
\* Strings are sequences of one-character strings
\* ------------------------------------------------------------------------
CONTENT_TYPE == <<"c", "o", "n", "t", "e", "n", "t", "-", "t", "y", "p", "e">>
CONTENT_ENCODING == <<"c", "o", "n", "t", "e", "n", "t", "-", "e", "n", "c", "o", "d", "i", "n", "g">>
CT_PROTOBUF == <<"a", "p", "p", "l", "i", "c", "a", "t", "i", "o", "n", "/", "x", "-", "p", "r", "o", "t", "o", "b", "u", "f">>
CE_GZIP == <<"g", "z", "i", "p">>

Upper == <<"C", "T", "E", "K", "X", "Y", "G", "Z", "I", "P", "N", "O", "R", "W", "A", "F", "D",
           "B", "U">>
Lower == <<"c", "t", "e", "k", "x", "y", "g", "z", "i", "p", "n", "o", "r", "w", "a", "f", "d",
           "b", "u">>
ToLowerChar(c) ==
    IF \E i \in 1..Len(Upper) : Upper[i] = c
    THEN Lower[CHOOSE i \in 1..Len(Upper) : Upper[i] = c]
    ELSE c
to_lowercase(s) == [i \in 1..Len(s) |-> ToLowerChar(s[i])]
ToUpperChar(c) ==
    IF \E i \in 1..Len(Lower) : Lower[i] = c
    THEN Upper[CHOOSE i \in 1..Len(Lower) : Lower[i] = c]
    ELSE c
to_uppercase(s) == [i \in 1..Len(s) |-> ToUpperChar(s[i])]

RECURSIVE trim_start(_)
trim_start(s) == IF s # <<>> /\ Head(s) = " " THEN trim_start(Tail(s)) ELSE s
RECURSIVE trim_end(_)
trim_end(s) ==
    IF s # <<>> /\ s[Len(s)] = " " THEN trim_end(SubSeq(s, 1, Len(s) - 1)) ELSE s
trim(s) == trim_end(trim_start(s))

IndexOf(s, c) ==
    IF \E i \in 1..Len(s) : s[i] = c
    THEN CHOOSE i \in 1..Len(s) : s[i] = c /\ \A j \in 1..(i-1) : s[j] # c
    ELSE 0

\* str::split(c): the pieces between the separators, empty pieces included
RECURSIVE split(_, _)
split(s, c) ==
    LET i == IndexOf(s, c) IN
    IF i = 0 THEN <<s>>
    ELSE <<SubSeq(s, 1, i - 1)>> \o split(SubSeq(s, i + 1, Len(s)), c)

\* str::split_once(c): None, or Some of the text before and after the first c
split_once(s, c) ==
    LET i == IndexOf(s, c) IN
    IF i = 0 THEN None
    ELSE Some([key |-> SubSeq(s, 1, i - 1), value |-> SubSeq(s, i + 1, Len(s))])

ends_with(s, suffix) ==
    Len(s) >= Len(suffix) /\ SubSeq(s, Len(s) - Len(suffix) + 1, Len(s)) = suffix

RECURSIVE trim_end_matches(_, _)
trim_end_matches(s, c) ==
    IF s # <<>> /\ s[Len(s)] = c THEN trim_end_matches(SubSeq(s, 1, Len(s) - 1), c) ELSE s

\* ------------------------------------------------------------------------
\* Protobuf wire format (prost), bytes below 128 so that every varint and
\* every length prefix is a single byte.
\* ------------------------------------------------------------------------
WireErr == [ok |-> FALSE, fields |-> <<>>]

RECURSIVE DecodeFields(_)
DecodeFields(b) ==
    IF b = <<>> THEN [ok |-> TRUE, fields |-> <<>>]
    ELSE LET key == Head(b)
             wt  == key % 8
             fld == key \div 8
             Cont(val, used) ==
                 LET rest == DecodeFields(SubSeq(b, used + 1, Len(b)))
                 IN  IF rest.ok
                     THEN [ok |-> TRUE,
                           fields |-> <<[field |-> fld, wt |-> wt, val |-> val]>> \o rest.fields]
                     ELSE WireErr
         IN  IF fld = 0 THEN WireErr                       \* invalid tag value: 0
             ELSE IF wt = 0 THEN                           \* varint
                 IF Len(b) < 2 THEN WireErr ELSE Cont(<<b[2]>>, 2)
             ELSE IF wt = 2 THEN                           \* length-delimited
                 IF Len(b) < 2 \/ Len(b) < 2 + b[2] THEN WireErr
                 ELSE Cont(SubSeq(b, 3, 2 + b[2]), 2 + b[2])
             ELSE IF wt = 1 THEN                           \* fixed64
                 IF Len(b) < 9 THEN WireErr ELSE Cont(SubSeq(b, 2, 9), 9)
             ELSE IF wt = 5 THEN                           \* fixed32
                 IF Len(b) < 5 THEN WireErr ELSE Cont(SubSeq(b, 2, 5), 5)
             ELSE WireErr                                  \* groups, invalid wire types

LenField(fld, content) == <<fld * 8 + 2, Len(content)>> \o content

\* Span: span_id (field 2, bytes), name (field 5, string)
EncodeSpan(sp) == LenField(2, <<sp.span_id>>) \o LenField(5, <<sp.name>>)

FieldVals(fields, fld) ==
    LET idx == { i \in 1..Len(fields) : fields[i].field = fld }
        F[i \in 0..Len(fields)] ==
            IF i = 0 THEN <<>>
            ELSE IF i \in idx THEN F[i-1] \o <<fields[i].val>> ELSE F[i-1]
    IN  F[Len(fields)]

\* a known length-delimited field met with another wire type is a decode error
WireMismatch(fields, known) ==
    \E i \in 1..Len(fields) : fields[i].field \in known /\ fields[i].wt # 2

LastOr(s, d) == IF s = <<>> THEN d ELSE s[Len(s)]

\* the values of results that are all Ok
AllOk(rs) == \A i \in 1..Len(rs) : rs[i].ok
Vals(rs) == [i \in 1..Len(rs) |-> rs[i].val]

SpanOf(d) ==
    IF ~d.ok \/ WireMismatch(d.fields, {2, 5}) THEN Err("span")
    ELSE Ok([span_id |-> LastOr(Flatten(FieldVals(d.fields, 2)), 0),
             name |-> LastOr(Flatten(FieldVals(d.fields, 5)), 0)])
DecodeSpan(b) == SpanOf(DecodeFields(b))
DecodeSpans(bs) == [i \in 1..Len(bs) |-> DecodeSpan(bs[i])]

\* a nested message kept as the byte of its field 1 (a message field met
\* several times keeps the last one; absent, the default 0)
SubMessageFields(bs) == [i \in 1..Len(bs) |-> DecodeFields(bs[i])]
SubMessageByte(ds) ==
    IF \E i \in 1..Len(ds) : ~ds[i].ok \/ WireMismatch(ds[i].fields, {1}) THEN Err("message")
    ELSE IF ds = <<>> THEN Ok(0)
    ELSE Ok(LastOr(Flatten(FieldVals(ds[Len(ds)].fields, 1)), 0))

\* ScopeSpans: scope (field 1, message, kept as its name byte), spans (field 2)
EncodeScopeSpans(ss) ==
    LenField(1, LenField(1, <<ss.scope>>))
        \o Flatten([i \in 1..Len(ss.spans) |-> LenField(2, EncodeSpan(ss.spans[i]))])

ScopeSpansFrom(scope, spans) ==
    IF ~scope.ok \/ ~AllOk(spans) THEN Err("scope_spans")
    ELSE Ok([scope |-> scope.val, spans |-> Vals(spans)])
ScopeSpansOf(d) ==
    IF ~d.ok \/ WireMismatch(d.fields, {1, 2}) THEN Err("scope_spans")
    ELSE ScopeSpansFrom(SubMessageByte(SubMessageFields(FieldVals(d.fields, 1))),
                        DecodeSpans(FieldVals(d.fields, 2)))
DecodeScopeSpans(b) == ScopeSpansOf(DecodeFields(b))
DecodeScopeSpansEach(bs) == [i \in 1..Len(bs) |-> DecodeScopeSpans(bs[i])]

\* ResourceSpans: resource (field 1, message, kept as its service byte),
\* scope_spans (field 2)
EncodeResourceSpans(rs) ==
    LenField(1, LenField(1, <<rs.resource>>))
        \o Flatten([i \in 1..Len(rs.scope_spans) |->
                        LenField(2, EncodeScopeSpans(rs.scope_spans[i]))])

ResourceSpansFrom(resource, scope_spans) ==
    IF ~resource.ok \/ ~AllOk(scope_spans) THEN Err("resource_spans")
    ELSE Ok([resource |-> resource.val, scope_spans |-> Vals(scope_spans)])
ResourceSpansOf(d) ==
    IF ~d.ok \/ WireMismatch(d.fields, {1, 2}) THEN Err("resource_spans")
    ELSE ResourceSpansFrom(SubMessageByte(SubMessageFields(FieldVals(d.fields, 1))),
                           DecodeScopeSpansEach(FieldVals(d.fields, 2)))
DecodeResourceSpans(b) == ResourceSpansOf(DecodeFields(b))
DecodeResourceSpansEach(bs) == [i \in 1..Len(bs) |-> DecodeResourceSpans(bs[i])]

\* ExportTraceServiceRequest: resource_spans (field 1, repeated message)
encode_otlp_payload(request) ==
    Flatten([i \in 1..Len(request.resource_spans) |->
                LenField(1, EncodeResourceSpans(request.resource_spans[i]))])

RequestFrom(resource_spans) ==
    IF ~AllOk(resource_spans) THEN Err("Failed to decode protobuf")
    ELSE Ok([resource_spans |-> Vals(resource_spans)])
RequestOf(d) ==
    IF ~d.ok \/ WireMismatch(d.fields, {1}) THEN Err("Failed to decode protobuf")
    ELSE RequestFrom(DecodeResourceSpansEach(FieldVals(d.fields, 1)))
decode_otlp_payload(payload) == RequestOf(DecodeFields(payload))

\* ------------------------------------------------------------------------
\* gzip: a member with the magic bytes, the deflate method, the XFL byte
\* the level selects, the stored data and a one-byte checksum
\* ------------------------------------------------------------------------
GzXfl(level) == IF level = 9 THEN 2 ELSE IF level <= 1 THEN 4 ELSE 0
GzSum(bytes) == SumSeq(bytes) % 128
GzEncode(bytes, level) == <<31, 139, 8, GzXfl(level)>> \o bytes \o <<GzSum(bytes)>>
GzDecode(bytes) ==
    IF Len(bytes) < 5 \/ SubSeq(bytes, 1, 3) # <<31, 139, 8>> THEN Err("invalid gzip header")
    ELSE LET body == SubSeq(bytes, 5, Len(bytes) - 1)
         IN  IF bytes[Len(bytes)] # GzSum(body) THEN Err("corrupt gzip stream")
             ELSE Ok(body)

\* TelemetryData::compress
compress(t, level) ==
    Ok([t EXCEPT !.payload = GzEncode(t.payload, level),
                 !.content_encoding = Some(CE_GZIP)])

\* ------------------------------------------------------------------------
\* Span compactor
\* ------------------------------------------------------------------------
Gzip == "Gzip"
NoCompression == "None"

\* the Results of decode_otlp_payload for the units of a batch, in order
decode_each(batch) == [i \in 1..Len(batch) |-> decode_otlp_payload(batch[i].payload)]

\* faulty variant: a unit that fails to decode is kept as an empty request
decoded_requests_keep_failed(decoded) ==
    [i \in 1..Len(decoded) |->
        IF decoded[i].ok THEN decoded[i].val ELSE [resource_spans |-> <<>>]]

\* the decode loop: the requests of the units that decode, in batch order
RECURSIVE decoded_requests(_)
decoded_requests(decoded) ==
    IF decoded = <<>> THEN <<>>
    ELSE (IF Head(decoded).ok THEN <<Head(decoded).val>> ELSE <<>>)
            \o decoded_requests(Tail(decoded))

\* the merge loop: extend merged_resource_spans with each request's spans
\* faulty variant: each request's spans are put in front of the ones merged so far
merged_request_prepend(reqs) ==
    [resource_spans |->
        Flatten([i \in 1..Len(reqs) |-> reqs[Len(reqs) + 1 - i].resource_spans])]

merged_request(reqs) ==
    [resource_spans |-> Flatten([i \in 1..Len(reqs) |-> reqs[i].resource_spans])]

\* map_err on the Result of compress
compress_map_err(r, msg) == IF r.ok THEN r ELSE Err(msg)

\* match config.compression, on the single unit and on the merged one
apply_compression(unit, config, msg) ==
    IF config.compression = Gzip
    THEN compress_map_err(compress(unit, config.gzip_compression_level), msg)
    ELSE Ok([unit EXCEPT !.content_encoding = None])

\* faulty variant: the single unit is compressed whatever the preference
compact_single_compressed(unit, config) ==
    compress_map_err(compress(unit, config.gzip_compression_level),
                     "Failed to compress single payload")

\* the single-unit path: no decoding, only the compression preference
compact_single(unit, config) ==
    apply_compression(unit, config, "Failed to compress single payload")

\* faulty variant: source and endpoint are taken from the last unit
compact_merged_last_metadata(batch, config, reqs) ==
    IF reqs = <<>> THEN Err("All payloads in batch failed to decode for compaction")
    ELSE apply_compression([source |-> batch[Len(batch)].source,
                            endpoint |-> batch[Len(batch)].endpoint,
                            payload |-> encode_otlp_payload(merged_request(reqs)),
                            content_type |-> CT_PROTOBUF,
                            content_encoding |-> None],
                           config, "Failed to compress merged payload")

\* the path of two or more units, from the decoded requests on
compact_merged(batch, config, reqs) ==
    IF reqs = <<>> THEN Err("All payloads in batch failed to decode for compaction")
    ELSE apply_compression([source |-> batch[1].source,
                            endpoint |-> batch[1].endpoint,
                            payload |-> encode_otlp_payload(merged_request(reqs)),
                            content_type |-> CT_PROTOBUF,
                            content_encoding |-> None],
                           config, "Failed to compress merged payload")

compact_telemetry_payloads(batch, config) ==
    IF batch = <<>> THEN Err("Cannot compact an empty batch of telemetry data.")
    ELSE IF Len(batch) = 1 THEN compact_single(batch[1], config)
    ELSE compact_merged(batch, config, decoded_requests(decode_each(batch)))

\* ------------------------------------------------------------------------
\* OTLP HTTP sender: headers
\* ------------------------------------------------------------------------
\* HeaderMap: a function from lower-case header names to the sequence of
\* their values
EmptyHeaders == [n \in {} |-> <<>>]
HeaderAppend(h, n, v) ==
    [m \in DOMAIN h \cup {n} |->
        IF m = n THEN (IF n \in DOMAIN h THEN h[n] ELSE <<>>) \o <<v>> ELSE h[m]]
HeaderInsert(h, n, v) == [m \in DOMAIN h \cup {n} |-> IF m = n THEN <<v>> ELSE h[m]]
HeaderRemove(h, n) == [m \in DOMAIN h \ {n} |-> h[m]]

\* HeaderName::from_str accepts token characters only and lower-cases them
NonTokenChars == {" ", "/", ",", "=", ":", "\n"}
HeaderNameValid(key) == key # <<>> /\ \A i \in 1..Len(key) : key[i] \notin NonTokenChars
\* HeaderValue::from_str rejects control characters
HeaderValueValid(value) == \A i \in 1..Len(value) : value[i] # "\n"

parse_otlp_headers(headers_str) ==
    IF headers_str = <<>> THEN EmptyHeaders
    ELSE
        LET pairs == split(headers_str, ",")
            acc[i \in 0..Len(pairs)] ==
                IF i = 0 THEN EmptyHeaders
                ELSE LET pair_str == trim(pairs[i])
                         kv == split_once(pair_str, "=")
                     IN  IF pair_str = <<>> THEN acc[i-1]
                         ELSE IF kv = None THEN acc[i-1]
                         ELSE LET key == trim(kv[1].key)
                                  value == trim(kv[1].value)
                              IN  IF key = <<>> THEN acc[i-1]
                                  ELSE IF ~HeaderNameValid(key) THEN acc[i-1]
                                  ELSE IF ~HeaderValueValid(value) THEN acc[i-1]
                                  ELSE HeaderAppend(acc[i-1], to_lowercase(key), value)
        IN  acc[Len(pairs)]

\* env::var: None when the variable is unset
EnvVar(e, name) == e[name]

\* faulty variant: both variables are read and merged, the trace-specific one last
resolve_otlp_headers_merged(e) ==
    LET traces_headers_var == EnvVar(e, "OTEL_EXPORTER_OTLP_TRACES_HEADERS")
        generic_headers_var == EnvVar(e, "OTEL_EXPORTER_OTLP_HEADERS")
        g == IF generic_headers_var # None THEN parse_otlp_headers(generic_headers_var[1])
             ELSE EmptyHeaders
        t == IF traces_headers_var # None THEN parse_otlp_headers(traces_headers_var[1])
             ELSE EmptyHeaders
    IN  [n \in DOMAIN g \cup DOMAIN t |-> IF n \in DOMAIN t THEN t[n] ELSE g[n]]

resolve_otlp_headers(e) ==
    LET traces_headers_var == EnvVar(e, "OTEL_EXPORTER_OTLP_TRACES_HEADERS")
        generic_headers_var == EnvVar(e, "OTEL_EXPORTER_OTLP_HEADERS")
    IN  IF traces_headers_var # None /\ traces_headers_var[1] # <<>>
        THEN parse_otlp_headers(traces_headers_var[1])
        ELSE IF generic_headers_var # None /\ generic_headers_var[1] # <<>>
        THEN parse_otlp_headers(generic_headers_var[1])
        ELSE EmptyHeaders

\* ------------------------------------------------------------------------
\* OTLP HTTP sender: endpoint and timeout
\* ------------------------------------------------------------------------
\* A URL string is its origin (scheme and authority, one element) followed
\* by the characters of its path and, after a "?", of its query; Url::parse
\* fails on a string with no origin and gives the empty path as "/"
Origins == {"http://localhost:4318", "http://collector:4318", "http://h:4318"}
OTLP_TRACES_PATH == <<"/", "v", "1", "/", "t", "r", "a", "c", "e", "s">>
DEFAULT_OTLP_ENDPOINT == <<"http://localhost:4318">> \o OTLP_TRACES_PATH
DEFAULT_OTLP_EXPORT_TIMEOUT == 10000      \* milliseconds

UrlOf(origin, path, query) ==
    [origin |-> origin, path |-> IF path = <<>> THEN <<"/">> ELSE path, query |-> query]
UrlSplit(origin, rest, at) ==
    IF at = None THEN UrlOf(origin, rest, None)
    ELSE UrlOf(origin, at[1].key, Some(at[1].value))
UrlParse(str) ==
    IF str = <<>> \/ Head(str) \notin Origins THEN Err("relative URL without a base")
    ELSE Ok(UrlSplit(Head(str), Tail(str), split_once(Tail(str), "?")))
UrlToString(url) ==
    <<url.origin>> \o url.path \o (IF url.query = None THEN <<>> ELSE <<"?">> \o url.query[1])

\* faulty variant: an invalid URL in a variable falls through to the next tier
resolve_otlp_endpoint_fallthrough(e) ==
    LET traces_endpoint == EnvVar(e, "OTEL_EXPORTER_OTLP_TRACES_ENDPOINT")
        generic_endpoint == EnvVar(e, "OTEL_EXPORTER_OTLP_ENDPOINT")
    IN  IF traces_endpoint # None /\ UrlParse(traces_endpoint[1]).ok
        THEN UrlParse(traces_endpoint[1])
        ELSE IF generic_endpoint # None /\ UrlParse(generic_endpoint[1]).ok
        THEN LET u == UrlParse(generic_endpoint[1])
                 current_path == u.val.path
             IN  IF ends_with(current_path, OTLP_TRACES_PATH) THEN u
                 ELSE Ok([u.val EXCEPT !.path =
                            IF current_path = <<"/">> THEN OTLP_TRACES_PATH
                            ELSE trim_end_matches(current_path, "/") \o OTLP_TRACES_PATH])
        ELSE UrlParse(DEFAULT_OTLP_ENDPOINT)

resolve_otlp_endpoint(e) ==
    LET traces_endpoint == EnvVar(e, "OTEL_EXPORTER_OTLP_TRACES_ENDPOINT")
        generic_endpoint == EnvVar(e, "OTEL_EXPORTER_OTLP_ENDPOINT")
    IN  IF traces_endpoint # None /\ traces_endpoint[1] # <<>>
        THEN LET u == UrlParse(traces_endpoint[1])
             IN  IF u.ok THEN u
                 ELSE Err("Invalid URL from OTEL_EXPORTER_OTLP_TRACES_ENDPOINT")
        ELSE IF generic_endpoint # None /\ generic_endpoint[1] # <<>>
        THEN LET u == UrlParse(generic_endpoint[1])
             IN  IF ~u.ok THEN Err("Invalid URL from OTEL_EXPORTER_OTLP_ENDPOINT")
                 ELSE LET current_path == u.val.path
                          new_path ==
                              IF current_path = <<"/">> \/ current_path = <<>>
                              THEN OTLP_TRACES_PATH
                              ELSE trim_end_matches(current_path, "/") \o OTLP_TRACES_PATH
                      IN  IF ~ends_with(current_path, OTLP_TRACES_PATH)
                          THEN Ok([u.val EXCEPT !.path = new_path])
                          ELSE u
        ELSE UrlParse(DEFAULT_OTLP_ENDPOINT)

Digits == <<"0", "1", "2", "3", "4", "5", "6", "7", "8", "9">>
IsDigit(c) == \E i \in 1..10 : Digits[i] = c
DigitVal(c) == (CHOOSE i \in 1..10 : Digits[i] = c) - 1
RECURSIVE DigitsVal(_)
DigitsVal(s) ==
    IF s = <<>> THEN 0 ELSE DigitsVal(SubSeq(s, 1, Len(s) - 1)) * 10 + DigitVal(s[Len(s)])
\* str::parse for an unsigned integer: digits with an optional leading "+"
ParseUnsigned(s) ==
    LET d == IF s # <<>> /\ Head(s) = "+" THEN Tail(s) ELSE s
    IN  IF d = <<>> \/ \E i \in 1..Len(d) : ~IsDigit(d[i]) THEN Err("invalid digit")
        ELSE Ok(DigitsVal(d))

\* SpanCompactionConfig::default(); max_payload_size is a placeholder that
\* nothing reads and is left out
CompressionPreference_from(val) ==
    IF val = None THEN NoCompression
    ELSE IF to_lowercase(val[1]) = <<"g", "z", "i", "p">> THEN Gzip
    ELSE NoCompression
default_gzip_compression_level(val_str) ==
    IF val_str # None /\ ParseUnsigned(val_str[1]).ok /\ ParseUnsigned(val_str[1]).val <= 9
    THEN ParseUnsigned(val_str[1]).val
    ELSE 9
\* faulty variant: the general variable is preferred to the trace-specific one
SpanCompactionConfig_default_generic_first(e) ==
    [compression |->
        CompressionPreference_from(
            IF EnvVar(e, "OTEL_EXPORTER_OTLP_COMPRESSION") # None
            THEN EnvVar(e, "OTEL_EXPORTER_OTLP_COMPRESSION")
            ELSE EnvVar(e, "OTEL_EXPORTER_OTLP_TRACES_COMPRESSION")),
     gzip_compression_level |->
        default_gzip_compression_level(EnvVar(e, "OTEL_EXPORTER_OTLP_COMPRESSION_LEVEL"))]

SpanCompactionConfig_default(e) ==
    [compression |->
        CompressionPreference_from(
            IF EnvVar(e, "OTEL_EXPORTER_OTLP_TRACES_COMPRESSION") # None
            THEN EnvVar(e, "OTEL_EXPORTER_OTLP_TRACES_COMPRESSION")
            ELSE EnvVar(e, "OTEL_EXPORTER_OTLP_COMPRESSION")),
     gzip_compression_level |->
        default_gzip_compression_level(EnvVar(e, "OTEL_EXPORTER_OTLP_COMPRESSION_LEVEL"))]

parse_otlp_timeout_millis(duration_ms_str) ==
    LET millis == ParseUnsigned(duration_ms_str)
    IN  IF millis.ok THEN millis ELSE Err("Invalid OTLP timeout value")

\* faulty variant: a value that does not parse falls through to the general variable
resolve_otlp_timeout_fallthrough(e) ==
    LET traces_timeout_var == EnvVar(e, "OTEL_EXPORTER_OTLP_TRACES_TIMEOUT")
        generic_timeout_var == EnvVar(e, "OTEL_EXPORTER_OTLP_TIMEOUT")
    IN  IF traces_timeout_var # None /\ parse_otlp_timeout_millis(traces_timeout_var[1]).ok
        THEN parse_otlp_timeout_millis(traces_timeout_var[1]).val
        ELSE IF generic_timeout_var # None /\ parse_otlp_timeout_millis(generic_timeout_var[1]).ok
        THEN parse_otlp_timeout_millis(generic_timeout_var[1]).val
        ELSE DEFAULT_OTLP_EXPORT_TIMEOUT

resolve_otlp_timeout(e) ==
    LET traces_timeout_var == EnvVar(e, "OTEL_EXPORTER_OTLP_TRACES_TIMEOUT")
        generic_timeout_var == EnvVar(e, "OTEL_EXPORTER_OTLP_TIMEOUT")
        timeout_str_to_parse ==
            IF traces_timeout_var # None /\ traces_timeout_var[1] # <<>>
            THEN traces_timeout_var
            ELSE IF generic_timeout_var # None /\ generic_timeout_var[1] # <<>>
            THEN generic_timeout_var
            ELSE None
    IN  IF timeout_str_to_parse # None /\ parse_otlp_timeout_millis(timeout_str_to_parse[1]).ok
        THEN parse_otlp_timeout_millis(timeout_str_to_parse[1]).val
        ELSE DEFAULT_OTLP_EXPORT_TIMEOUT

\* ------------------------------------------------------------------------
\* OTLP HTTP sender: send_telemetry_batch
\* ------------------------------------------------------------------------
\* up to the call of post_telemetry: the request, or the error returned
\* before anything is sent
\* faulty variant: the content headers are appended and a missing encoding removes nothing
request_headers_appended(e, telemetry_data) ==
    LET h0 == resolve_otlp_headers(e)
        h1 == HeaderAppend(h0, CONTENT_TYPE, telemetry_data.content_type)
    IN  IF telemetry_data.content_encoding # None
        THEN HeaderAppend(h1, CONTENT_ENCODING, telemetry_data.content_encoding[1])
        ELSE h1

request_headers(e, telemetry_data) ==
    LET h0 == resolve_otlp_headers(e)
        h1 == HeaderInsert(h0, CONTENT_TYPE, telemetry_data.content_type)
    IN  IF telemetry_data.content_encoding # None
        THEN HeaderInsert(h1, CONTENT_ENCODING, telemetry_data.content_encoding[1])
        ELSE HeaderRemove(h1, CONTENT_ENCODING)

send_telemetry_batch_request(e, telemetry_data) ==
    LET resolved_target_url == resolve_otlp_endpoint(e)
        timeout == resolve_otlp_timeout(e)
        h2 == request_headers(e, telemetry_data)
    IN  IF ~resolved_target_url.ok THEN resolved_target_url
        ELSE IF ~HeaderValueValid(telemetry_data.content_type)
        THEN Err("Invalid Content-Type in TelemetryData")
        ELSE IF telemetry_data.content_encoding # None
                /\ ~HeaderValueValid(telemetry_data.content_encoding[1])
        THEN Err("Invalid Content-Encoding in TelemetryData")
        ELSE Ok([url |-> UrlToString(resolved_target_url.val),
                 headers |-> h2,
                 body |-> telemetry_data.payload,
                 timeout |-> timeout])

\* faulty variant: redirects count as success
is_success_below_400(status) == status >= 200 /\ status <= 399
is_success(status) == status >= 200 /\ status <= 299

\* from the outcome of post_telemetry to the returned Result
send_telemetry_batch_result(response) ==
    IF response.kind = "error" THEN Err("HTTP request failed during OTLP export")
    ELSE IF ~is_success(response.status)
    THEN [Err("OTLP export failed") EXCEPT
             !.status = response.status,
             !.body = IF response.text # None THEN response.text[1]
                      ELSE <<"Failed to read response body.">>]
    ELSE Ok(<<>>)

\* ------------------------------------------------------------------------
\* Forwarder processor: process_event_batch up to the HTTP POST
\* ------------------------------------------------------------------------
process_event_batch_send(compacted_telemetry, req) ==
    IF req.ok
    THEN [stages |-> <<"parse", "compact", "send">>,
          compacted |-> Some(compacted_telemetry),
          request |-> Some(req.val), returned |-> None]
    ELSE [stages |-> <<"parse", "compact", "send">>,
          compacted |-> Some(compacted_telemetry), request |-> None,
          returned |-> Some(Context(req, "Sending telemetry batch failed"))]

process_event_batch_compacted(compacted_telemetry, e) ==
    IF ~compacted_telemetry.ok
    THEN [stages |-> <<"parse", "compact">>,
          compacted |-> Some(compacted_telemetry), request |-> None,
          returned |-> Some(Context(compacted_telemetry, "Telemetry compaction failed"))]
    ELSE process_event_batch_send(
             compacted_telemetry,
             send_telemetry_batch_request(e, compacted_telemetry.val))

process_event_batch(parse_result, compaction_config, e) ==
    IF ~parse_result.ok
    THEN [stages |-> <<"parse">>, compacted |-> None, request |-> None,
          returned |-> Some(Context(parse_result, "Event parsing failed"))]
    ELSE IF parse_result.val = <<>>
    THEN [stages |-> <<"parse">>, compacted |-> None, request |-> None,
          returned |-> Some(Ok(<<>>))]
    ELSE process_event_batch_compacted(
             compact_telemetry_payloads(parse_result.val, compaction_config), e)

\* faulty variant: the send error is logged and dropped
process_event_batch_result_swallowed(send_result) == Ok(<<>>)

\* the Result of process_event_batch once send_telemetry_batch has returned
process_event_batch_result(send_result) ==
    IF send_result.ok THEN Ok(<<>>)
    ELSE Context(send_result, "Sending telemetry batch failed")

\* ------------------------------------------------------------------------
\* Sample data of the forwarder
\* ------------------------------------------------------------------------
SpanA == [span_id |-> 1, name |-> 65]
SpanB == [span_id |-> 2, name |-> 66]
SpanC == [span_id |-> 3, name |-> 67]
RsA == [resource |-> 1, scope_spans |-> <<[scope |-> 1, spans |-> <<SpanA>>]>>]
RsB == [resource |-> 2, scope_spans |-> <<[scope |-> 1, spans |-> <<SpanB, SpanC>>]>>]
ReqA == [resource_spans |-> <<RsA>>]
ReqB == [resource_spans |-> <<RsB>>]
ReqEmpty == [resource_spans |-> <<>>]

CT_INVALID == <<"t", "e", "x", "t", "\n">>
CE_INVALID == <<"b", "r", "\n">>

Unit(payload, source, ct, ce) ==
    [payload |-> payload, source |-> source,
     endpoint |-> <<"http://example.com">> \o OTLP_TRACES_PATH,
     content_type |-> ct, content_encoding |-> ce]

UnitA == Unit(encode_otlp_payload(ReqA), "s1", CT_PROTOBUF, None)
UnitB == Unit(encode_otlp_payload(ReqB), "s2", CT_PROTOBUF, None)
UnitEmpty == Unit(encode_otlp_payload(ReqEmpty), "s3", CT_PROTOBUF, None)
UnitBad == Unit(<<0, 1, 2>>, "s4", CT_PROTOBUF, None)            \* invalid tag
UnitBadCt == Unit(encode_otlp_payload(ReqA), "s5", CT_INVALID, None)
UnitGz == Unit(GzEncode(encode_otlp_payload(ReqB), 9), "s6", CT_PROTOBUF, Some(CE_GZIP))
UnitBadCe == Unit(encode_otlp_payload(ReqA), "s7", CT_PROTOBUF, Some(CE_INVALID))

\* what the units were built from: the request, or None for a payload
\* that is not a protobuf request
Origin(unit) ==
    IF unit.payload = UnitBad.payload THEN None
    ELSE IF unit.source \in {"s1", "s5", "s7"} THEN Some(ReqA)
    ELSE IF unit.source \in {"s2", "s6"} THEN Some(ReqB)
    ELSE Some(ReqEmpty)

Units == {UnitA, UnitB, UnitEmpty, UnitBad, UnitBadCt}
SendUnits == Units \cup {UnitGz, UnitBadCe}

Configs == { [compression |-> c, gzip_compression_level |-> 9] : c \in {Gzip, NoCompression} }

ParseResults ==
    {Err("Mock parser failed intentionally")}
        \cup { Ok(b) : b \in SeqsUpTo(Units, MaxBatch) }

H_xy == <<"x", "=", "1", ",", "y", "=", "2">>
H_yz == <<"y", "=", "3", ",", "z", "=", "4">>
H_reserved == <<"C", "o", "n", "t", "e", "n", "t", "-", "T", "y", "p", "e", "=", "e", "v", "i", "l", ",", "c", "o", "n", "t", "e", "n", "t", "-", "e", "n", "c", "o", "d", "i", "n", "g", "=", "b", "r", ",", " ", "K", " ", "=", " ", "v", " ">>

EnvNames == {"OTEL_EXPORTER_OTLP_TRACES_ENDPOINT", "OTEL_EXPORTER_OTLP_ENDPOINT",
             "OTEL_EXPORTER_OTLP_TRACES_HEADERS", "OTEL_EXPORTER_OTLP_HEADERS",
             "OTEL_EXPORTER_OTLP_TRACES_TIMEOUT", "OTEL_EXPORTER_OTLP_TIMEOUT",
             "OTEL_EXPORTER_OTLP_TRACES_COMPRESSION", "OTEL_EXPORTER_OTLP_COMPRESSION",
             "OTEL_EXPORTER_OTLP_COMPRESSION_LEVEL"}
EnvValues(name) ==
    CASE name = "OTEL_EXPORTER_OTLP_TRACES_ENDPOINT" ->
            {None, Some(<<"http://collector:4318">> \o OTLP_TRACES_PATH),
             Some(<<"n", "o", "t", " ", "a", " ", "u", "r", "l">>)}
      [] name = "OTEL_EXPORTER_OTLP_ENDPOINT" ->
            {None, Some(<<"http://h:4318", "/", "c", "u", "s", "t", "o", "m">>)}
      [] name = "OTEL_EXPORTER_OTLP_TRACES_HEADERS" ->
            {None, Some(<<>>), Some(H_yz), Some(H_reserved)}
      [] name = "OTEL_EXPORTER_OTLP_HEADERS" ->
            {None, Some(H_xy), Some(H_reserved)}
      [] OTHER -> {None}

Responses ==
    { [kind |-> "response", status |-> 200, text |-> Some(<<>>)],
      [kind |-> "response", status |-> 299, text |-> Some(<<>>)],
      [kind |-> "response", status |-> 300, text |-> Some(<<"Multiple Choices">>)],
      [kind |-> "response", status |-> 500, text |-> Some(<<"Internal Error">>)],
      [kind |-> "response", status |-> 500, text |-> None],      \* body unreadable
      [kind |-> "error", status |-> 0, text |-> None] }          \* timeout, connect

\* ------------------------------------------------------------------------
\* Specification of the forwarder core
\* ------------------------------------------------------------------------
InitForwarder ==
    /\ env = [n \in EnvNames |-> None]
    /\ entry = "none"
    /\ pc = "idle"
    /\ parseOut = None
    /\ cBatch = None
    /\ cCfg = None
    /\ cOut = None
    /\ sUnit = None
    /\ stages = <<>>
    /\ posts = <<>>
    /\ resp = None
    /\ result = None

\* the process environment changes (std::env::set_var / remove_var); a call
\* reads the environment before its only await, so a change during a call
\* is observed like a change after it and is modelled between calls
SetEnv ==
    \E n \in EnvNames : \E v \in EnvValues(n) :
        /\ pc = "idle"
        /\ v # env[n]
        /\ env' = [env EXCEPT ![n] = v]
        /\ UNCHANGED <<entry, pc, parseOut, cBatch, cCfg, cOut, sUnit, stages, posts,
                       resp, result, sinkVars, expVars, tailVars, spanVars, assocVars, levelVars, renderVars, barVars>>

\* a direct call of compact_telemetry_payloads on a batch of at most n units
CompactUpTo(n) ==
    /\ pc = "idle"
    /\ \E batch \in SeqsUpTo(Units, n), config \in Configs :
        /\ entry' = "compact"
        /\ pc' = "done"
        /\ cBatch' = Some(batch)
        /\ cCfg' = Some(config)
        /\ cOut' = Some(compact_telemetry_payloads(batch, config))
        /\ result' = cOut'
        /\ UNCHANGED <<env, parseOut, sUnit, stages, posts, resp, sinkVars, expVars, tailVars, spanVars, assocVars, levelVars, renderVars, barVars>>

Compact == CompactUpTo(MaxBatch)
CompactLong == CompactUpTo(MaxLongBatch)

\* a call of compact_telemetry_payloads with one unit, which may carry a
\* content encoding
CompactOne ==
    /\ pc = "idle"
    /\ \E unit \in SendUnits, config \in Configs :
        /\ entry' = "compact"
        /\ pc' = "done"
        /\ cBatch' = Some(<<unit>>)
        /\ cCfg' = Some(config)
        /\ cOut' = Some(compact_telemetry_payloads(<<unit>>, config))
        /\ result' = cOut'
        /\ UNCHANGED <<env, parseOut, sUnit, stages, posts, resp, sinkVars, expVars, tailVars, spanVars, assocVars, levelVars, renderVars, barVars>>

\* a direct call of send_telemetry_batch, up to the await of the POST
SendTelemetryBatch ==
    /\ pc = "idle"
    /\ \E unit \in SendUnits : \E req \in {send_telemetry_batch_request(env, unit)} :
        /\ entry' = "send"
        /\ sUnit' = Some(unit)
        /\ IF req.ok
           THEN pc' = "posting" /\ posts' = <<req.val>> /\ result' = None
           ELSE pc' = "done" /\ posts' = <<>> /\ result' = Some(req)
        /\ UNCHANGED <<env, parseOut, cBatch, cCfg, cOut, stages, resp, sinkVars, expVars, tailVars, spanVars, assocVars, levelVars, renderVars, barVars>>

\* a call of process_event_batch, up to the await of the POST
ProcessEventBatch ==
    /\ pc = "idle"
    /\ \E parse_result \in ParseResults, config \in Configs :
      \E r \in {process_event_batch(parse_result, config, env)} :
        /\ entry' = "process"
        /\ parseOut' = Some(parse_result)
        /\ cBatch' = IF Len(r.stages) >= 2 THEN Some(parse_result.val) ELSE None
        /\ cCfg' = Some(config)
        /\ cOut' = r.compacted
        /\ sUnit' = IF Len(r.stages) = 3 THEN Some(r.compacted[1].val) ELSE None
        /\ stages' = r.stages
        /\ posts' = IF r.request # None THEN <<r.request[1]>> ELSE <<>>
        /\ result' = r.returned
        /\ pc' = IF r.returned = None THEN "posting" ELSE "done"
        /\ UNCHANGED <<env, resp, sinkVars, expVars, tailVars, spanVars, assocVars, levelVars, renderVars, barVars>>

\* the POST completes: a response arrives or the transport fails
PostCompletes ==
    /\ pc = "posting"
    /\ \E response \in Responses :
        /\ resp' = Some(response)
        /\ result' = Some(IF entry = "process"
                          THEN process_event_batch_result(send_telemetry_batch_result(response))
                          ELSE send_telemetry_batch_result(response))
        /\ pc' = "done"
        /\ UNCHANGED <<env, entry, parseOut, cBatch, cCfg, cOut, sUnit, stages, posts,
                       sinkVars, expVars, tailVars, spanVars, assocVars, levelVars, renderVars, barVars>>

\* the caller takes the Result; the next call starts afresh
Return ==
    /\ pc = "done"
    /\ pc' = "idle"
    /\ entry' = "none"
    /\ parseOut' = None /\ cBatch' = None /\ cCfg' = None /\ cOut' = None
    /\ sUnit' = None /\ stages' = <<>> /\ posts' = <<>> /\ resp' = None /\ result' = None
    /\ UNCHANGED <<env, sinkVars, expVars, tailVars, spanVars, assocVars, levelVars, renderVars, barVars>>

NextForwarder ==
    \/ SetEnv
    \/ Compact
    \/ SendTelemetryBatch
    \/ ProcessEventBatch
    \/ PostCompletes
    \/ Return

\* the compactor alone, on longer batches
NextCompactor ==
    \/ CompactLong
    \/ CompactOne
    \/ Return

\* SpanCompactionConfig::default() is called under every environment of
\* the three compression variables
CompressionEnvNames == {"OTEL_EXPORTER_OTLP_TRACES_COMPRESSION", "OTEL_EXPORTER_OTLP_COMPRESSION",
                        "OTEL_EXPORTER_OTLP_COMPRESSION_LEVEL"}
CompressionEnvValues(name) ==
    CASE name = "OTEL_EXPORTER_OTLP_TRACES_COMPRESSION" ->
            {None, Some(<<>>), Some(<<"g", "z", "i", "p">>), Some(<<"G", "z", "I", "P">>),
             Some(<<"n", "o", "n", "e">>), Some(<<"b", "r">>)}
      [] name = "OTEL_EXPORTER_OTLP_COMPRESSION" ->
            {None, Some(<<"g", "z", "i", "p">>), Some(<<"N", "O", "N", "E">>),
             Some(<<"z", "i", "p">>)}
      [] name = "OTEL_EXPORTER_OTLP_COMPRESSION_LEVEL" ->
            {None, Some(<<"5">>), Some(<<"1", "2">>), Some(<<"x">>)}

SetCompressionEnv ==
    \E n \in CompressionEnvNames : \E v \in CompressionEnvValues(n) :
        /\ pc = "idle"
        /\ v # env[n]
        /\ env' = [env EXCEPT ![n] = v]
        /\ UNCHANGED <<entry, pc, parseOut, cBatch, cCfg, cOut, sUnit, stages, posts,
                       resp, result, sinkVars, expVars, tailVars, spanVars, assocVars, levelVars, renderVars, barVars>>

DefaultConfig ==
    /\ pc = "idle"
    /\ entry' = "config"
    /\ pc' = "done"
    /\ cCfg' = Some(SpanCompactionConfig_default(env))
    /\ UNCHANGED <<env, parseOut, cBatch, cOut, sUnit, stages, posts, resp, result,
                   sinkVars, expVars, tailVars, spanVars, assocVars, levelVars, renderVars, barVars>>

NextCompactorConfig ==
    \/ SetCompressionEnv
    \/ DefaultConfig
    \/ Return

\* the endpoint and timeout variables of the sender's environment
SenderEnvNames == {"OTEL_EXPORTER_OTLP_TRACES_ENDPOINT", "OTEL_EXPORTER_OTLP_ENDPOINT",
                   "OTEL_EXPORTER_OTLP_TRACES_TIMEOUT", "OTEL_EXPORTER_OTLP_TIMEOUT"}
U_custom == <<"http://h:4318", "/", "c">>
SenderEnvValues(name) ==
    CASE name = "OTEL_EXPORTER_OTLP_TRACES_ENDPOINT" ->
            {None, Some(<<>>), Some(<<"http://collector:4318", "/", "t">>),
             Some(<<"http://collector:4318">>), Some(<<"n", "o", " ", "u", "r", "l">>)}
      [] name = "OTEL_EXPORTER_OTLP_ENDPOINT" ->
            {None, Some(<<>>), Some(U_custom), Some(U_custom \o <<"/">>),
             Some(U_custom \o <<"/", "/">>), Some(U_custom \o OTLP_TRACES_PATH),
             Some(U_custom \o <<"?", "k">>), Some(<<"http://h:4318">>),
             Some(<<"b", "a", "d">>)}
      [] name = "OTEL_EXPORTER_OTLP_TRACES_TIMEOUT" ->
            {None, Some(<<>>), Some(<<"5", "0", "0", "0">>), Some(<<"5", "s">>)}
      [] name = "OTEL_EXPORTER_OTLP_TIMEOUT" ->
            {None, Some(<<"2", "5", "0">>), Some(<<"x">>)}

SetSenderEnv ==
    \E n \in SenderEnvNames : \E v \in SenderEnvValues(n) :
        /\ pc = "idle"
        /\ v # env[n]
        /\ env' = [env EXCEPT ![n] = v]
        /\ UNCHANGED <<entry, pc, parseOut, cBatch, cCfg, cOut, sUnit, stages, posts,
                       resp, result, sinkVars, expVars, tailVars, spanVars, assocVars, levelVars, renderVars, barVars>>

\* the sender alone, under every endpoint and timeout environment
NextSender ==
    \/ SetSenderEnv
    \/ SendTelemetryBatch
    \/ PostCompletes
    \/ Return

\* ------------------------------------------------------------------------
\* Sinks of the stdout span exporter: write_line on one shared sink
\* ------------------------------------------------------------------------
MaxWriters == 2        \* threads that call write_line on the sink
MaxCalls == 3          \* write_line calls made in one run

Writers == 1..MaxWriters
SinkKinds == {"stdout", "file", "pipe"}
SinkLines == {<<"a">>, <<"b", "b">>}
\* the bytes of one write, each marked with the call that wrote it
Written(call, bytes) == [i \in 1..Len(bytes) |-> [call |-> call, byte |-> bytes[i]]]

InitSink ==
    /\ sinkKind = "none"
    /\ sinkOut = <<>>
    /\ stdoutLock = None
    /\ stdoutBuf = <<>>
    /\ wpc = [w \in Writers |-> "idle"]
    /\ wline = [w \in Writers |-> None]
    /\ wres = [w \in Writers |-> None]
    /\ wcalls = 0

\* create_output_from_uri: the sink the threads share
CreateOutput ==
    /\ sinkKind = "none"
    /\ sinkKind' \in SinkKinds
    /\ UNCHANGED <<sinkOut, stdoutLock, stdoutBuf, wpc, wline, wres, wcalls, fwdVars, expVars, tailVars, spanVars, assocVars, levelVars, renderVars, barVars>>

\* a thread calls write_line(line) on the sink
WriteLineCall(w) ==
    /\ sinkKind # "none"
    /\ wpc[w] = "idle"
    /\ wcalls < MaxCalls
    /\ \E line \in SinkLines :
        wline' = [wline EXCEPT ![w] = Some([call |-> wcalls + 1, line |-> line])]
    /\ wcalls' = wcalls + 1
    /\ wpc' = [wpc EXCEPT ![w] = "called"]
    /\ wres' = [wres EXCEPT ![w] = None]
    /\ UNCHANGED <<sinkKind, sinkOut, stdoutLock, stdoutBuf, fwdVars, expVars, tailVars, spanVars, assocVars, levelVars, renderVars, barVars>>

\* StdOutput: io::stdout().lock() waits for the process-wide lock
StdoutLock(w) ==
    /\ sinkKind = "stdout"
    /\ wpc[w] = "called"
    /\ stdoutLock = None
    /\ stdoutLock' = Some(w)
    /\ wpc' = [wpc EXCEPT ![w] = "open"]
    /\ UNCHANGED <<sinkKind, sinkOut, stdoutBuf, wline, wres, wcalls, fwdVars, expVars, tailVars, spanVars, assocVars, levelVars, renderVars, barVars>>

\* FileOutput, NamedPipeOutput: OpenOptions::open, which takes no lock; a
\* failure is returned at once
OpenFile(w) ==
    /\ sinkKind \in {"file", "pipe"}
    /\ wpc[w] = "called"
    /\ \E opened \in BOOLEAN :
        /\ wpc' = [wpc EXCEPT ![w] = IF opened THEN "open" ELSE "idle"]
        /\ wres' = [wres EXCEPT ![w] = IF opened THEN None
                                       ELSE Some(Err("Failed to open"))]
    /\ UNCHANGED <<sinkKind, sinkOut, stdoutLock, stdoutBuf, wline, wcalls, fwdVars, expVars, tailVars, spanVars, assocVars, levelVars, renderVars, barVars>>

\* writeln!(f, "{}", line) writes the line and the newline with two calls of
\* write_all. The first: the stdout handle keeps a line without a newline
\* in its line buffer, a File passes it to the destination at once.
WriteText(w) ==
    /\ wpc[w] = "open"
    /\ IF sinkKind = "stdout"
       THEN /\ stdoutBuf' = stdoutBuf \o Written(wline[w][1].call, wline[w][1].line)
            /\ UNCHANGED sinkOut
       ELSE /\ sinkOut' = sinkOut \o Written(wline[w][1].call, wline[w][1].line)
            /\ UNCHANGED stdoutBuf
    /\ wpc' = [wpc EXCEPT ![w] = "text"]
    /\ UNCHANGED <<sinkKind, stdoutLock, wline, wres, wcalls, fwdVars, expVars, tailVars, spanVars, assocVars, levelVars, renderVars, barVars>>

\* the second: the newline; the stdout line buffer is flushed with it
WriteNewline(w) ==
    /\ wpc[w] = "text"
    /\ sinkOut' = sinkOut \o (IF sinkKind = "stdout" THEN stdoutBuf ELSE <<>>)
                          \o Written(wline[w][1].call, <<"\n">>)
    /\ stdoutBuf' = IF sinkKind = "stdout" THEN <<>> ELSE stdoutBuf
    /\ wpc' = [wpc EXCEPT ![w] = "newline"]
    /\ UNCHANGED <<sinkKind, stdoutLock, wline, wres, wcalls, fwdVars, expVars, tailVars, spanVars, assocVars, levelVars, renderVars, barVars>>

\* write_line returns Ok(()): the lock guard or the File is dropped
WriteLineReturn(w) ==
    /\ wpc[w] = "newline"
    /\ stdoutLock' = IF sinkKind = "stdout" THEN None ELSE stdoutLock
    /\ wres' = [wres EXCEPT ![w] = Some(Ok(<<>>))]
    /\ wpc' = [wpc EXCEPT ![w] = "idle"]
    /\ UNCHANGED <<sinkKind, sinkOut, stdoutBuf, wline, wcalls, fwdVars, expVars, tailVars, spanVars, assocVars, levelVars, renderVars, barVars>>

NextSink ==
    \/ CreateOutput
    \/ \E w \in Writers :
        \/ WriteLineCall(w)
        \/ StdoutLock(w)
        \/ OpenFile(w)
        \/ WriteText(w)
        \/ WriteNewline(w)
        \/ WriteLineReturn(w)

\* ------------------------------------------------------------------------
\* Stdout span exporter: configuration (OtlpStdoutSpanExporter::new)
\* ------------------------------------------------------------------------
VERSION == "CARGO_PKG_VERSION"
DEFAULT_SERVICE_NAME == "unknown-service"
DEFAULT_COMPRESSION_LEVEL == 6
EXPORTER_ENDPOINT == "http://localhost:4318/v1/traces"

get_service_name(e) ==
    IF e["OTEL_SERVICE_NAME"] # None THEN e["OTEL_SERVICE_NAME"][1]
    ELSE IF e["AWS_LAMBDA_FUNCTION_NAME"] # None THEN e["AWS_LAMBDA_FUNCTION_NAME"][1]
    ELSE DEFAULT_SERVICE_NAME

\* HashMap<String, String>: a function from keys to values
EmptyMap == [k \in {} |-> <<>>]
MapInsert(m, key, value) == [k \in DOMAIN m \cup {key} |-> IF k = key THEN value ELSE m[k]]
MapExtend(m, other) ==
    [k \in DOMAIN m \cup DOMAIN other |-> IF k \in DOMAIN other THEN other[k] ELSE m[k]]
OptionMap(o) == IF o = None THEN EmptyMap ELSE o[1]

\* one pair of parse_header_string: kv is split_once('=') of the pair
parse_header_pair(kv, headers) ==
    IF kv = None THEN headers
    ELSE IF to_lowercase(trim(kv[1].key)) \notin {CONTENT_TYPE, CONTENT_ENCODING}
    THEN MapInsert(headers, to_lowercase(trim(kv[1].key)), trim(kv[1].value))
    ELSE headers

RECURSIVE parse_header_pairs(_, _)
parse_header_pairs(pairs, headers) ==
    IF pairs = <<>> THEN headers
    ELSE parse_header_pairs(Tail(pairs),
                            parse_header_pair(split_once(Head(pairs), "="), headers))

parse_header_string(header_str, headers) ==
    parse_header_pairs(split(header_str, ","), headers)

\* the closure get_headers of parse_headers
get_headers(e, var_name) ==
    IF e[var_name] = None THEN None
    ELSE Some(parse_header_string(e[var_name][1], EmptyMap))

parse_headers_merged(global_headers, trace_headers) ==
    IF DOMAIN global_headers \cup DOMAIN trace_headers = {} THEN None
    ELSE Some(MapExtend(global_headers, trace_headers))

parse_headers(e) ==
    IF get_headers(e, "OTEL_EXPORTER_OTLP_HEADERS") = None
       /\ get_headers(e, "OTEL_EXPORTER_OTLP_TRACES_HEADERS") = None
    THEN None
    ELSE parse_headers_merged(OptionMap(get_headers(e, "OTEL_EXPORTER_OTLP_HEADERS")),
                              OptionMap(get_headers(e, "OTEL_EXPORTER_OTLP_TRACES_HEADERS")))

\* faulty variant: the constructor's headers override the environment's
new_headers_constructor_first(headers, env_headers) ==
    IF headers = None THEN env_headers
    ELSE IF env_headers # None THEN Some(MapExtend(env_headers[1], headers[1]))
    ELSE headers

\* new: the constructor's headers extended with the environment's
new_headers(headers, env_headers) ==
    IF headers = None THEN env_headers
    ELSE IF env_headers # None THEN Some(MapExtend(headers[1], env_headers[1]))
    ELSE headers

\* str::parse::<u8>
parse_u8(parsed) == IF parsed.ok /\ parsed.val <= 255 THEN parsed ELSE Err("invalid u8")

\* faulty variant: the constructor's level is preferred to the environment's
new_compression_level_from_constructor_first(compression_level, value) ==
    IF compression_level # None THEN compression_level[1]
    ELSE IF value.ok /\ value.val <= 9 THEN value.val
    ELSE DEFAULT_COMPRESSION_LEVEL

new_compression_level_from(compression_level, value) ==
    IF value.ok /\ value.val <= 9 THEN value.val
    ELSE IF compression_level # None THEN compression_level[1]
    ELSE DEFAULT_COMPRESSION_LEVEL

new_compression_level(compression_level, e) ==
    new_compression_level_from(
        compression_level,
        IF e["OTLP_STDOUT_SPAN_EXPORTER_COMPRESSION_LEVEL"] = None THEN Err("not present")
        ELSE parse_u8(ParseUnsigned(e["OTLP_STDOUT_SPAN_EXPORTER_COMPRESSION_LEVEL"][1])))

\* LogLevel::from_str and Display
LogLevelDisplay == [Debug |-> "DEBUG", Info |-> "INFO", Warn |-> "WARN", Error |-> "ERROR"]
LogLevel_match(s) ==
    IF s = <<"d", "e", "b", "u", "g">> THEN Ok("Debug")
    ELSE IF s = <<"i", "n", "f", "o">> THEN Ok("Info")
    ELSE IF s = <<"w", "a", "r", "n">> \/ s = <<"w", "a", "r", "n", "i", "n", "g">> THEN Ok("Warn")
    ELSE IF s = <<"e", "r", "r", "o", "r">> THEN Ok("Error")
    ELSE Err("Invalid log level")
LogLevel_from_str(s) == LogLevel_match(to_lowercase(s))

new_level(level, e) ==
    IF e["OTLP_STDOUT_SPAN_EXPORTER_LOG_LEVEL"] # None
       /\ LogLevel_from_str(e["OTLP_STDOUT_SPAN_EXPORTER_LOG_LEVEL"][1]).ok
    THEN Some(LogLevel_from_str(e["OTLP_STDOUT_SPAN_EXPORTER_LOG_LEVEL"][1]).val)
    ELSE level

\* an output URI is its scheme followed by the characters of its path
StdOutput == [kind |-> "stdout", path |-> <<>>]
TestOutput == [kind |-> "test", path |-> <<>>]
\* FileOutput::new: the file system of the model cannot create the parent
\* directory of a path that starts with "?"
FileOutput_new(path) ==
    IF path # <<>> /\ Head(path) = "?" THEN Err("Failed to create directory")
    ELSE Ok([kind |-> "file", path |-> path])
\* NamedPipeOutput::new only warns when the pipe does not exist
NamedPipeOutput_new(path) == Ok([kind |-> "pipe", path |-> path])
create_output_from_uri(uri) ==
    IF uri # <<>> /\ Head(uri) = "stdout://" THEN Ok(StdOutput)
    ELSE IF uri # <<>> /\ Head(uri) = "file://" THEN FileOutput_new(Tail(uri))
    ELSE IF uri # <<>> /\ Head(uri) = "pipe://" THEN NamedPipeOutput_new(Tail(uri))
    ELSE Err("Unsupported output URI")

create_from_path_or_fallback(path, fallback) ==
    IF create_output_from_uri(path).ok THEN create_output_from_uri(path).val ELSE fallback

new_output(output, output_path, e) ==
    IF e["OTLP_STDOUT_SPAN_EXPORTER_OUTPUT_PATH"] # None
    THEN create_from_path_or_fallback(
             e["OTLP_STDOUT_SPAN_EXPORTER_OUTPUT_PATH"][1],
             IF output # None THEN output[1]
             ELSE IF output_path # None
             THEN create_from_path_or_fallback(output_path[1], StdOutput)
             ELSE StdOutput)
    ELSE IF output # None THEN output[1]
    ELSE IF output_path # None THEN create_from_path_or_fallback(output_path[1], StdOutput)
    ELSE StdOutput

new(args, e) ==
    [compression_level |-> new_compression_level(args.compression_level, e),
     resource |-> args.resource,
     headers |-> new_headers(args.headers, parse_headers(e)),
     output |-> new_output(args.output, args.output_path, e),
     level |-> new_level(args.level, e)]

\* ------------------------------------------------------------------------
\* Envelope codec: base64, JSON line
\* ------------------------------------------------------------------------
\* base64 text is the sequence of its symbols: the index 0..63 of a
\* character in the standard alphabet, or B64Pad for "="
B64Pad == 64
RECURSIVE B64Encode(_)
B64Encode(b) ==
    IF b = <<>> THEN <<>>
    ELSE IF Len(b) = 1 THEN <<b[1] \div 4, (b[1] % 4) * 16, B64Pad, B64Pad>>
    ELSE IF Len(b) = 2
    THEN <<b[1] \div 4, (b[1] % 4) * 16 + b[2] \div 16, (b[2] % 16) * 4, B64Pad>>
    ELSE <<b[1] \div 4, (b[1] % 4) * 16 + b[2] \div 16,
           (b[2] % 16) * 4 + b[3] \div 64, b[3] % 64>> \o B64Encode(SubSeq(b, 4, Len(b)))

\* padding only at the end of the last quad, no stray bits before it
B64Valid(s) ==
    /\ Len(s) % 4 = 0
    /\ \A i \in 1..Len(s) : s[i] \in 0..63 \/ (s[i] = B64Pad /\ i >= Len(s) - 1)
    /\ s # <<>> =>
        /\ s[Len(s) - 1] = B64Pad => (s[Len(s)] = B64Pad /\ s[Len(s) - 2] % 16 = 0)
        /\ (s[Len(s)] = B64Pad /\ s[Len(s) - 1] # B64Pad) => s[Len(s) - 1] % 4 = 0

RECURSIVE B64Bytes(_)
B64Bytes(s) ==
    IF s = <<>> THEN <<>>
    ELSE IF s[3] = B64Pad THEN <<s[1] * 4 + s[2] \div 16>>
    ELSE IF s[4] = B64Pad
    THEN <<s[1] * 4 + s[2] \div 16, (s[2] % 16) * 16 + s[3] \div 4>>
    ELSE <<s[1] * 4 + s[2] \div 16, (s[2] % 16) * 16 + s[3] \div 4, (s[3] % 4) * 64 + s[4]>>
            \o B64Bytes(SubSeq(s, 5, Len(s)))

B64Decode(s) == IF B64Valid(s) THEN Ok(B64Bytes(s)) ELSE Err("Invalid base64")

\* str::as_bytes of base64 text: the ASCII code of each symbol
B64Ascii(c) ==
    IF c < 26 THEN 65 + c ELSE IF c < 52 THEN 71 + c ELSE IF c < 62 THEN c - 4
    ELSE IF c = 62 THEN 43 ELSE IF c = 63 THEN 47 ELSE 61
as_bytes(s) == [i \in 1..Len(s) |-> B64Ascii(s[i])]

\* a JSON object is the sequence of its members; a value has a type
JsonMember(key, type, value) == <<[key |-> key, type |-> type, value |-> value]>>

is_headers_empty(headers) == headers = None \/ DOMAIN headers[1] = {}

\* serde_json::to_string of an ExporterOutput
to_string(o) ==
    JsonMember("__otel_otlp_stdout", "string", o.version)
        \o JsonMember("source", "string", o.source)
        \o JsonMember("endpoint", "string", o.endpoint)
        \o JsonMember("method", "string", o.method)
        \o JsonMember("content-type", "string", o.content_type)
        \o JsonMember("content-encoding", "string", o.content_encoding)
        \o (IF is_headers_empty(o.headers) THEN <<>>
            ELSE JsonMember("headers", "object", o.headers[1]))
        \o JsonMember("payload", "string", o.payload)
        \o JsonMember("base64", "bool", o.base64)
        \o (IF o.level = None THEN <<>> ELSE JsonMember("level", "string", o.level[1]))

\* serde_json::from_str::<ExporterOutput>: the fields by their serde names,
\* the Option fields absent or null, other members ignored
EnvelopeStrings == {"__otel_otlp_stdout", "source", "endpoint", "method", "content-type",
                    "content-encoding", "payload"}
EnvelopeType(key) ==
    IF key \in EnvelopeStrings \cup {"level"} THEN "string"
    ELSE IF key = "base64" THEN "bool" ELSE "object"
JsonKeys(line) == { line[i].key : i \in 1..Len(line) }
JsonGet(line, key) == line[CHOOSE i \in 1..Len(line) : line[i].key = key].value
JsonOption(line, key) ==
    IF key \in JsonKeys(line) /\ line[CHOOSE i \in 1..Len(line) : line[i].key = key].type # "null"
    THEN Some(JsonGet(line, key)) ELSE None

from_str(line) ==
    IF \E i, j \in 1..Len(line) :
            i # j /\ line[i].key = line[j].key
                  /\ line[i].key \in EnvelopeStrings \cup {"base64", "headers", "level"}
    THEN Err("duplicate field")
    ELSE IF ~(EnvelopeStrings \cup {"base64"} \subseteq JsonKeys(line))
    THEN Err("missing field")
    ELSE IF \E i \in 1..Len(line) :
                /\ line[i].key \in EnvelopeStrings \cup {"base64", "headers", "level"}
                /\ line[i].type # EnvelopeType(line[i].key)
                /\ ~(line[i].type = "null" /\ line[i].key \in {"headers", "level"})
    THEN Err("invalid type")
    ELSE Ok([version |-> JsonGet(line, "__otel_otlp_stdout"),
             source |-> JsonGet(line, "source"),
             endpoint |-> JsonGet(line, "endpoint"),
             method |-> JsonGet(line, "method"),
             content_type |-> JsonGet(line, "content-type"),
             content_encoding |-> JsonGet(line, "content-encoding"),
             headers |-> JsonOption(line, "headers"),
             payload |-> JsonGet(line, "payload"),
             base64 |-> JsonGet(line, "base64"),
             level |-> JsonOption(line, "level")])

\* ------------------------------------------------------------------------
\* Stdout span exporter: export
\* ------------------------------------------------------------------------
\* a SpanData is [span_id, name, scope]; its instrumentation scope is the
\* byte of the scope's name
SpanOfData(sd) == [span_id |-> sd.span_id, name |-> sd.name]

\* faulty variant: the spans of a scope are collected last to first
RECURSIVE SpansOfScopeReversed(_, _)
SpansOfScopeReversed(batch, scope) ==
    IF batch = <<>> THEN <<>>
    ELSE SpansOfScopeReversed(Tail(batch), scope)
            \o (IF Head(batch).scope = scope THEN <<SpanOfData(Head(batch))>> ELSE <<>>)

\* the spans of one instrumentation scope, in batch order
RECURSIVE SpansOfScope(_, _)
SpansOfScope(batch, scope) ==
    IF batch = <<>> THEN <<>>
    ELSE (IF Head(batch).scope = scope THEN <<SpanOfData(Head(batch))>> ELSE <<>>)
            \o SpansOfScope(Tail(batch), scope)

\* the scope groups come out of a HashMap: in any order
ScopesOf(batch) == { batch[i].scope : i \in 1..Len(batch) }
ScopeOrders(batch) ==
    { o \in [1..Cardinality(ScopesOf(batch)) -> ScopesOf(batch)] :
        \A i, j \in DOMAIN o : i # j => o[i] # o[j] }

\* one ResourceSpans with the exporter's resource and a group for each scope
group_spans_by_resource_and_scope(batch, resource, order) ==
    <<[resource |-> resource,
       scope_spans |-> [i \in 1..Len(order) |->
                           [scope |-> order[i], spans |-> SpansOfScope(batch, order[i])]]]>>

\* the ExporterOutput of a batch
export_output_data(x, e, batch, order) ==
    [version |-> VERSION,
     source |-> get_service_name(e),
     endpoint |-> EXPORTER_ENDPOINT,
     method |-> "POST",
     content_type |-> "application/x-protobuf",
     content_encoding |-> "gzip",
     headers |-> x.headers,
     payload |-> B64Encode(GzEncode(
                    encode_otlp_payload(
                        [resource_spans |->
                            group_spans_by_resource_and_scope(
                                batch, IF x.resource = None THEN 0 ELSE x.resource[1], order)]),
                    x.compression_level)),
     base64 |-> TRUE,
     level |-> IF x.level = None THEN None ELSE Some(LogLevelDisplay[x.level[1]])]

\* the line export gives to output.write_line
export_line(x, e, batch, order) == to_string(export_output_data(x, e, batch, order))

\* ------------------------------------------------------------------------
\* Live tail: the envelope parser
\* ------------------------------------------------------------------------
\* The payloads of this model are protobuf bytes, none is the text of a JSON
\* ExportTraceServiceRequest: under the content type application/json
\* serde_json::from_slice rejects every one of them.
convert_decompressed(decompressed, content_type) ==
    IF ~decompressed.ok THEN Context(decompressed, "Failed to decompress Gzip payload")
    ELSE IF content_type = "application/json"
    THEN Err("Failed to parse JSON as ExportTraceServiceRequest")
    ELSE IF decode_otlp_payload(decompressed.val).ok THEN decompressed
    ELSE Err("Payload failed to decode as protobuf")

convert_to_protobuf(payload, content_type, content_encoding) ==
    convert_decompressed(IF content_encoding = Some("gzip") THEN GzDecode(payload)
                         ELSE Ok(payload),
                         content_type)

process_record_payload(record, protobuf_payload) ==
    IF ~protobuf_payload.ok
    THEN Context(protobuf_payload, "Failed to convert payload to protobuf")
    ELSE Ok(Some([payload |-> protobuf_payload.val,
                  original_endpoint |-> record.endpoint,
                  original_source |-> record.source]))

process_record_raw(record, raw_payload) ==
    IF ~raw_payload.ok THEN Context(raw_payload, "Failed to decode base64 payload")
    ELSE process_record_payload(
             record,
             convert_to_protobuf(raw_payload.val, record.content_type,
                                 Some(record.content_encoding)))

process_record(parsed) ==
    IF ~parsed.ok THEN Ok(None)
    ELSE IF parsed.val.version = "" \/ parsed.val.payload = <<>> THEN Ok(None)
    ELSE process_record_raw(parsed.val,
                            IF parsed.val.base64 THEN B64Decode(parsed.val.payload)
                            ELSE Ok(as_bytes(parsed.val.payload)))

process_log_event_message(message) == process_record(from_str(message))

\* ------------------------------------------------------------------------
\* Sample data of the exporter
\* ------------------------------------------------------------------------
MaxSpans == 3          \* longest batch given to export

SpanDataA == [span_id |-> 1, name |-> 65, scope |-> 1]
SpanDataB == [span_id |-> 2, name |-> 66, scope |-> 2]
SpanDataC == [span_id |-> 3, name |-> 67, scope |-> 1]
SpanBatches == SeqsUpTo({SpanDataA, SpanDataB, SpanDataC}, MaxSpans)

HC_Xyw == (<<"X">> :> <<"0">>) @@ (<<"y">> :> <<"9">>) @@ (<<"w">> :> <<"8">>)
HX_Xy == <<"X", "=", "1", ",", "y", "=", "2">>
HX_Yz == <<"Y", "=", "3", ",", " ", "z", " ", "=", " ", "4">>
\* constructor headers that name the two reserved keys
HC_Reserved == (<<"C", "o", "n", "t", "e", "n", "t", "-", "T", "y", "p", "e">> :> <<"e">>)
                   @@ (CONTENT_ENCODING :> <<"b">>) @@ (<<"k">> :> <<"v">>)

ExporterArgs ==
    { [compression_level |-> None, resource |-> None, headers |-> None,
       output |-> Some(TestOutput), level |-> None, output_path |-> None],
      [compression_level |-> Some(1), resource |-> Some(7), headers |-> Some(HC_Xyw),
       output |-> Some(TestOutput), level |-> Some("Debug"), output_path |-> None],
      [compression_level |-> Some(9), resource |-> None, headers |-> Some(EmptyMap),
       output |-> None, level |-> None, output_path |-> None],
      [compression_level |-> None, resource |-> None, headers |-> Some(HC_Reserved),
       output |-> Some(TestOutput), level |-> None, output_path |-> None],
      [compression_level |-> None, resource |-> None, headers |-> None,
       output |-> None, level |-> Some("Warn"), output_path |-> Some(<<"pipe://", "p">>)],
      [compression_level |-> Some(7), resource |-> None, headers |-> None,
       output |-> Some(TestOutput), level |-> None, output_path |-> Some(<<"file://", "g">>)],
      [compression_level |-> None, resource |-> None, headers |-> None,
       output |-> None, level |-> None, output_path |-> Some(<<"ftp://", "g">>)],
      [compression_level |-> Some(12), resource |-> None, headers |-> None,
       output |-> Some(TestOutput), level |-> None, output_path |-> None] }

ServiceEnvNames == {"OTEL_SERVICE_NAME", "AWS_LAMBDA_FUNCTION_NAME"}
HeaderEnvNames == {"OTEL_EXPORTER_OTLP_HEADERS", "OTEL_EXPORTER_OTLP_TRACES_HEADERS"}
SettingEnvNames ==
    {"OTLP_STDOUT_SPAN_EXPORTER_COMPRESSION_LEVEL", "OTLP_STDOUT_SPAN_EXPORTER_LOG_LEVEL",
     "OTLP_STDOUT_SPAN_EXPORTER_OUTPUT_PATH"}
ExporterEnvNames == ServiceEnvNames \cup HeaderEnvNames \cup SettingEnvNames
ExporterEnvValues(name) ==
    CASE name = "OTEL_SERVICE_NAME" -> {None, Some("svc")}
      [] name = "AWS_LAMBDA_FUNCTION_NAME" -> {None, Some("fn")}
      [] name = "OTEL_EXPORTER_OTLP_HEADERS" -> {None, Some(HX_Xy), Some(H_reserved)}
      [] name = "OTEL_EXPORTER_OTLP_TRACES_HEADERS" -> {None, Some(<<>>), Some(HX_Yz)}
      [] name = "OTLP_STDOUT_SPAN_EXPORTER_COMPRESSION_LEVEL" ->
            {None, Some(<<"3">>), Some(<<"1", "2">>), Some(<<"x">>)}
      [] name = "OTLP_STDOUT_SPAN_EXPORTER_LOG_LEVEL" ->
            {None, Some(<<"E", "r", "r", "o", "r">>), Some(<<"k">>)}
      [] name = "OTLP_STDOUT_SPAN_EXPORTER_OUTPUT_PATH" ->
            {None, Some(<<"file://", "f">>), Some(<<"file://", "?", "f">>),
             Some(<<"ftp://", "f">>)}

\* ------------------------------------------------------------------------
\* Specification of the exporter and of the envelope parser
\* ------------------------------------------------------------------------
InitExporter ==
    /\ xenv = [n \in ExporterEnvNames |-> None]
    /\ xargs = None
    /\ exporter = None
    /\ xpc = "idle"
    /\ xBatch = None
    /\ xLines = <<>>
    /\ xResult = None
    /\ xParsed = None

\* the environment of the exporter's process changes, in the variables names
SetExporterEnvIn(names) ==
    /\ xpc = "idle"
    /\ \E n \in names : \E v \in ExporterEnvValues(n) :
        /\ v # xenv[n]
        /\ xenv' = [xenv EXCEPT ![n] = v]
    /\ UNCHANGED <<xargs, exporter, xpc, xBatch, xLines, xResult, xParsed, fwdVars, sinkVars, tailVars, spanVars, assocVars, levelVars, renderVars, barVars>>

SetExporterEnv == SetExporterEnvIn(ServiceEnvNames \cup HeaderEnvNames)
SetSettingsEnv == SetExporterEnvIn(SettingEnvNames)
SetServiceEnv == SetExporterEnvIn(ServiceEnvNames)

\* OtlpStdoutSpanExporter::builder()...build()
NewExporter ==
    /\ xpc = "idle"
    /\ exporter = None
    /\ \E args \in ExporterArgs :
        /\ xargs' = Some([args |-> args, env |-> xenv])
        /\ exporter' = Some(new(args, xenv))
    /\ UNCHANGED <<xenv, xpc, xBatch, xLines, xResult, xParsed, fwdVars, sinkVars, tailVars, spanVars, assocVars, levelVars, renderVars, barVars>>

DropExporter ==
    /\ xpc = "idle"
    /\ exporter # None
    /\ xargs' = None
    /\ exporter' = None
    /\ UNCHANGED <<xenv, xpc, xBatch, xLines, xResult, xParsed, fwdVars, sinkVars, tailVars, spanVars, assocVars, levelVars, renderVars, barVars>>

\* export(batch): one line is given to the output, whose write_line can
\* fail when the output is not the collecting one of the tests
Export ==
    /\ xpc = "idle"
    /\ exporter # None
    /\ \E batch \in SpanBatches : \E order \in ScopeOrders(batch) :
       \E written \in IF exporter[1].output.kind = "test" THEN {TRUE} ELSE BOOLEAN :
        /\ xBatch' = Some(batch)
        /\ xLines' = IF written THEN <<export_line(exporter[1], xenv, batch, order)>>
                     ELSE <<>>
        /\ xResult' = Some(IF written THEN Ok(<<>>) ELSE Err("write_line failed"))
    /\ xpc' = "exported"
    /\ UNCHANGED <<xenv, xargs, exporter, xParsed, fwdVars, sinkVars, tailVars, spanVars, assocVars, levelVars, renderVars, barVars>>

\* the live tail receives the line as a log event message
ProcessLogEventMessage ==
    /\ xpc = "exported"
    /\ xLines # <<>>
    /\ xParsed' = Some(process_log_event_message(xLines[1]))
    /\ xpc' = "parsed"
    /\ UNCHANGED <<xenv, xargs, exporter, xBatch, xLines, xResult, fwdVars, sinkVars, tailVars, spanVars, assocVars, levelVars, renderVars, barVars>>

ExportReturn ==
    /\ xpc \in {"exported", "parsed"}
    /\ xpc' = "idle"
    /\ xBatch' = None /\ xLines' = <<>> /\ xResult' = None /\ xParsed' = None
    /\ UNCHANGED <<xenv, xargs, exporter, fwdVars, sinkVars, tailVars, spanVars, assocVars, levelVars, renderVars, barVars>>

NextExporter ==
    \/ SetServiceEnv
    \/ NewExporter
    \/ DropExporter
    \/ Export
    \/ ProcessLogEventMessage
    \/ ExportReturn

NextExporterConfig ==
    \/ SetExporterEnv
    \/ NewExporter
    \/ DropExporter

NextExporterSettings ==
    \/ SetSettingsEnv
    \/ NewExporter
    \/ DropExporter

\* ------------------------------------------------------------------------
\* Live tail: the coordinator loop of main
\* ------------------------------------------------------------------------
MaxTailUnits == 3      \* units the live tail receives in one session

\* what process_log_event_message makes of the messages of a session update
MessageOutcomes == {"some", "none", "err"}
SessionResults == SeqsUpTo(MessageOutcomes, 2) \ {<<>>}
CountSome(outcomes) == Len(SelectSeq(outcomes, LAMBDA o : o = "some"))

console_enabled(args) == ~args.forward_only
endpoint_opt(args) == args.otlp_endpoint

\* one call of display_console or of send_batch, as the session saw it
TailCall(op, at, batch, ok) == [op |-> op, at |-> at, batch |-> batch, ok |-> ok]

\* faulty variant: the batch is forwarded before it is rendered
flush_forward_first(args, at, batch, render_ok, sent) ==
    (IF endpoint_opt(args) # None THEN <<TailCall("send_batch", at, batch, sent)>> ELSE <<>>)
        \o (IF console_enabled(args)
            THEN <<TailCall("display_console", at, batch, render_ok)>> ELSE <<>>)

\* the flush of a batch: display_console(..)? and then send_batch(..).await?
\* where send_batch logs every failure and returns Ok(())
flush(args, at, batch, render_ok, sent) ==
    (IF console_enabled(args)
     THEN <<TailCall("display_console", at, batch, render_ok)>> ELSE <<>>)
        \o (IF endpoint_opt(args) # None /\ (console_enabled(args) => render_ok)
            THEN <<TailCall("send_batch", at, batch, sent)>> ELSE <<>>)

\* the error the flush returns through its question marks, if any
flush_result(args, render_ok) ==
    IF console_enabled(args) /\ ~render_ok THEN Err("display_console failed") ELSE Ok(<<>>)

InitLiveTail ==
    /\ tArgs = None
    /\ tpc = "init"
    /\ telemetry_buffer = <<>>
    /\ tRecv = 0
    /\ tEvents = <<>>
    /\ tResult = None

\* main up to the loop: the arguments are validated
Main ==
    /\ tpc = "init"
    /\ \E forward_only \in BOOLEAN, otlp_endpoint \in {None, Some("endpoint")} :
        /\ tArgs' = Some([forward_only |-> forward_only, otlp_endpoint |-> otlp_endpoint])
        /\ IF forward_only /\ otlp_endpoint = None
           THEN /\ tpc' = "exit"
                /\ tResult' = Some(Err("--forward-only requires --otlp-endpoint to be set"))
           ELSE /\ tpc' = "loop"
                /\ tResult' = tResult
    /\ UNCHANGED <<telemetry_buffer, tRecv, tEvents, fwdVars, sinkVars, expVars, spanVars, assocVars, levelVars, renderVars, barVars>>

\* the stream gives a session update: every message that is an envelope
\* becomes a unit of the buffer
SessionUpdate ==
    /\ tpc = "loop"
    /\ \E log_events \in SessionResults :
        /\ tRecv + CountSome(log_events) <= MaxTailUnits
        /\ tRecv' = tRecv + CountSome(log_events)
        /\ telemetry_buffer' =
              IF console_enabled(tArgs[1]) \/ endpoint_opt(tArgs[1]) # None
              THEN telemetry_buffer \o [i \in 1..CountSome(log_events) |-> tRecv + i]
              ELSE telemetry_buffer
    /\ UNCHANGED <<tArgs, tpc, tEvents, tResult, fwdVars, sinkVars, expVars, spanVars, assocVars, levelVars, renderVars, barVars>>

\* the stream gives an error: event? returns it from main
StreamError ==
    /\ tpc = "loop"
    /\ tpc' = "exit"
    /\ tResult' = Some(Err("stream error"))
    /\ UNCHANGED <<tArgs, telemetry_buffer, tRecv, tEvents, fwdVars, sinkVars, expVars, spanVars, assocVars, levelVars, renderVars, barVars>>

\* the stream is closed: the loop is left
StreamEnd ==
    /\ tpc = "loop"
    /\ tpc' = "final"
    /\ UNCHANGED <<tArgs, telemetry_buffer, tRecv, tEvents, tResult, fwdVars, sinkVars,
                   expVars, spanVars, assocVars, levelVars, renderVars, barVars>>

\* the ticker fires on a buffer that is not empty (on an empty one the
\* branch does nothing)
Tick ==
    /\ tpc = "loop"
    /\ telemetry_buffer # <<>>
    /\ \E render_ok \in BOOLEAN, sent \in BOOLEAN :
        /\ tEvents' = tEvents \o flush(tArgs[1], "tick", telemetry_buffer, render_ok, sent)
        /\ IF flush_result(tArgs[1], render_ok).ok
           THEN tpc' = tpc /\ tResult' = tResult
           ELSE tpc' = "exit" /\ tResult' = Some(flush_result(tArgs[1], render_ok))
    /\ telemetry_buffer' = <<>>
    /\ UNCHANGED <<tArgs, tRecv, fwdVars, sinkVars, expVars, spanVars, assocVars, levelVars, renderVars, barVars>>

\* faulty variant: main returns without the final flush
FinalFlushSkipped ==
    /\ tpc = "final"
    /\ tpc' = "exit"
    /\ tResult' = Some(Ok(<<>>))
    /\ telemetry_buffer' = <<>>
    /\ UNCHANGED <<tArgs, tRecv, tEvents, fwdVars, sinkVars, expVars, spanVars, assocVars, levelVars, renderVars, barVars>>

\* after the loop: what is left in the buffer is flushed and main returns
FinalFlush ==
    /\ tpc = "final"
    /\ \E render_ok \in BOOLEAN, sent \in BOOLEAN :
        /\ tEvents' = IF telemetry_buffer = <<>> THEN tEvents
                      ELSE tEvents \o flush(tArgs[1], "final", telemetry_buffer, render_ok, sent)
        /\ tResult' = IF telemetry_buffer = <<>> THEN Some(Ok(<<>>))
                      ELSE Some(flush_result(tArgs[1], render_ok))
    /\ telemetry_buffer' = <<>>
    /\ tpc' = "exit"
    /\ UNCHANGED <<tArgs, tRecv, fwdVars, sinkVars, expVars, spanVars, assocVars, levelVars, renderVars, barVars>>

NextLiveTail ==
    \/ Main
    \/ SessionUpdate
    \/ StreamError
    \/ StreamEnd
    \/ Tick
    \/ FinalFlush

\* ------------------------------------------------------------------------
\* Raw-JSON span parser (AwsAppSignalSpanParser)
\* ------------------------------------------------------------------------
MaxRecords == 3        \* log events in one call of parse

\* A log message is text that is not JSON, or the text of a JSON value. A
\* JSON value is [type, n, members]: n is the number, or stands for the
\* text of a string; members are those of an object.
JsonValue(type, n) == [type |-> type, n |-> n, members |-> <<>>]
JsonObject(members) == [type |-> "object", n |-> 0, members |-> members]
NotJson == [json |-> FALSE, value |-> JsonValue("null", 0)]
JsonText(value) == [json |-> TRUE, value |-> value]
serde_json_from_str(message_str) ==
    IF message_str.json THEN Ok(message_str.value) ELSE Err("expected value")

\* a panic unwinds through every caller
Panic == Err("called Option::unwrap() on a None value")

\* Map::get followed by Value::as_str / Value::as_u64
Get(record, key) == IF key \in DOMAIN record.members THEN Some(record.members[key]) ELSE None
as_str(v, default) == IF v # None /\ v[1].type = "string" THEN v[1].n ELSE default
as_u64(v) == IF v # None /\ v[1].type = "number" /\ v[1].n >= 0 THEN Some(v[1].n) ELSE None

\* the OtlpTrace of a record whose end time is end_time: one resource, one
\* scope, one span; 0 stands for the empty text, 85 for "UnnamedSpan"
OtlpTraceOf(record) ==
    [resource_spans |->
        <<[resource |-> 0,
           scope_spans |->
               <<[scope |-> 0,
                  spans |-> <<[span_id |-> as_str(Get(record, "spanId"), 0),
                               name |-> as_str(Get(record, "name"), 85)]>>]>>]>>]

\* convert_span_to_otlp: record.as_object().unwrap() comes first
convert_span_to_otlp(record) ==
    IF record.type # "object" THEN Panic
    ELSE IF as_u64(Get(record, "endTimeUnixNano")) = None THEN Ok(None)
    ELSE Ok(Some(OtlpTraceOf(record)))

\* convert_span_to_otlp_protobuf: the trace of convert_span_to_otlp encoded
\* as protobuf, an error when there is none
protobuf_of(converted) ==
    IF converted = Panic THEN Panic
    ELSE IF converted.val = None THEN Err("span has no endTimeUnixNano")
    ELSE Ok(encode_otlp_payload(converted.val[1]))
convert_span_to_otlp_protobuf(span_json) == protobuf_of(convert_span_to_otlp(span_json))

\* the body of the loop of parse for one log event
parse_message(span_json) ==
    IF ~span_json.ok THEN span_json ELSE convert_span_to_otlp_protobuf(span_json.val)

SpanTelemetryData(log_group, protobuf_bytes) ==
    [source |-> log_group, endpoint |-> <<>>, payload |-> protobuf_bytes,
     content_type |-> CT_PROTOBUF, content_encoding |-> None]

RECURSIVE parse_loop(_, _, _)
parse_next(log_events, log_group, telemetry_items, converted) ==
    IF converted = Panic THEN Panic
    ELSE IF converted.ok
    THEN parse_loop(log_events, log_group,
                    Append(telemetry_items, SpanTelemetryData(log_group, converted.val)))
    ELSE parse_loop(log_events, log_group, telemetry_items)
parse_loop(log_events, log_group, telemetry_items) ==
    IF log_events = <<>> THEN Ok(telemetry_items)
    ELSE parse_next(Tail(log_events), log_group, telemetry_items,
                    parse_message(serde_json_from_str(Head(log_events))))

parse(log_events, log_group) == parse_loop(log_events, log_group, <<>>)

\* sample messages
SpanRecord(members) == JsonText(JsonObject(members))
RawMessages ==
    { NotJson,
      JsonText(JsonValue("number", 42)),
      JsonText(JsonValue("array", 0)),
      SpanRecord(("name" :> JsonValue("string", 65)) @@ ("spanId" :> JsonValue("string", 1))
                    @@ ("endTimeUnixNano" :> JsonValue("number", 5))),
      SpanRecord(("spanId" :> JsonValue("string", 2))
                    @@ ("endTimeUnixNano" :> JsonValue("number", 7))),
      SpanRecord(("name" :> JsonValue("string", 66)) @@ ("spanId" :> JsonValue("string", 3))),
      SpanRecord(("name" :> JsonValue("string", 67))
                    @@ ("endTimeUnixNano" :> JsonValue("null", 0))) }

InitSpanParser ==
    /\ pEvents = None
    /\ pResult = None

Parse ==
    /\ pResult = None
    /\ \E log_events \in SeqsUpTo(RawMessages, MaxRecords) :
        /\ pEvents' = Some(log_events)
        /\ pResult' = Some(parse(log_events, "aws/spans"))
    /\ UNCHANGED <<fwdVars, sinkVars, expVars, tailVars, assocVars, levelVars, renderVars, barVars>>

ParseReturn ==
    /\ pResult # None
    /\ pEvents' = None
    /\ pResult' = None
    /\ UNCHANGED <<fwdVars, sinkVars, expVars, tailVars, assocVars, levelVars, renderVars, barVars>>

NextSpanParser ==
    \/ Parse
    \/ ParseReturn

\* ------------------------------------------------------------------------
\* Compaction in two steps: the Result of one call is a unit of the next
\* ------------------------------------------------------------------------
\* compact([compact([a, b]), c]); the first call's error ends it
compact_left(a, b, c, config, first) ==
    IF ~first.ok THEN first ELSE compact_telemetry_payloads(<<first.val, c>>, config)
\* compact([a, compact([b, c])])
compact_right(a, b, c, config, first) ==
    IF ~first.ok THEN first ELSE compact_telemetry_payloads(<<a, first.val>>, config)

InitAssoc ==
    /\ kBatch = None
    /\ kCfg = None
    /\ kOut = None

CompactInSteps ==
    /\ kOut = None
    /\ \E a \in Units, b \in Units, c \in Units, config \in Configs :
        /\ kBatch' = Some(<<a, b, c>>)
        /\ kCfg' = Some(config)
        /\ kOut' = Some([flat |-> compact_telemetry_payloads(<<a, b, c>>, config),
                         left |-> compact_left(a, b, c, config,
                                      compact_telemetry_payloads(<<a, b>>, config)),
                         right |-> compact_right(a, b, c, config,
                                      compact_telemetry_payloads(<<b, c>>, config))])
    /\ UNCHANGED <<fwdVars, sinkVars, expVars, tailVars, spanVars, levelVars, renderVars, barVars>>

CompactInStepsReturn ==
    /\ kOut # None
    /\ kBatch' = None
    /\ kCfg' = None
    /\ kOut' = None
    /\ UNCHANGED <<fwdVars, sinkVars, expVars, tailVars, spanVars, levelVars, renderVars, barVars>>

NextAssoc ==
    \/ CompactInSteps
    \/ CompactInStepsReturn

\* ------------------------------------------------------------------------
\* Span events: the minimum event level and record_event
\* ------------------------------------------------------------------------
MaxEventCalls == 2     \* calls of record_event in one process

\* enum EventLevel with its discriminants, which order the levels
EventLevel == [Trace |-> 1, Debug |-> 5, Info |-> 9, Warn |-> 13, Error |-> 17]
EventLevels == DOMAIN EventLevel
\* defaults::EVENT_LEVEL
EVENT_LEVEL == <<"I", "N", "F", "O">>

\* env::var(primary_var).or_else(|_| env::var(fallback_var))
\*     .unwrap_or_else(|_| defaults::EVENT_LEVEL.to_string())
level_var(e, primary_var, fallback_var) ==
    IF e[primary_var] # None THEN e[primary_var][1]
    ELSE IF e[fallback_var] # None THEN e[fallback_var][1]
    ELSE EVENT_LEVEL

level_match(level) ==
    IF level = <<"E", "R", "R", "O", "R">> THEN "Error"
    ELSE IF level = <<"W", "A", "R", "N">> THEN "Warn"
    ELSE IF level = <<"I", "N", "F", "O">> THEN "Info"
    ELSE IF level = <<"D", "E", "B", "U", "G">> THEN "Debug"
    ELSE IF level = <<"T", "R", "A", "C", "E">> THEN "Trace"
    ELSE "Info"

get_min_level_with_env_vars(e, primary_var, fallback_var) ==
    level_match(to_uppercase(level_var(e, primary_var, fallback_var)))

\* faulty variant: the environment is read at every call
get_or_init_every_call(cell, e) ==
    Some(get_min_level_with_env_vars(e, "AWS_LAMBDA_LOG_LEVEL", "LOG_LEVEL"))

\* MIN_LEVEL.get_or_init(..): the cell after the call
get_or_init(cell, e) ==
    IF cell # None THEN cell
    ELSE Some(get_min_level_with_env_vars(e, "AWS_LAMBDA_LOG_LEVEL", "LOG_LEVEL"))

get_min_level(cell, e) == get_or_init(cell, e)[1]

\* record_event_impl: what becomes of the event
record_event_impl(level, min_level, span_is_disabled) ==
    IF EventLevel[level] < EventLevel[min_level] THEN "dropped"
    ELSE IF span_is_disabled THEN "no span"
    ELSE "added"

LevelEnvNames == {"AWS_LAMBDA_LOG_LEVEL", "LOG_LEVEL"}
LevelEnvValues(name) ==
    IF name = "AWS_LAMBDA_LOG_LEVEL"
    THEN {None, Some(<<>>), Some(<<"D", "E", "B", "U", "G">>), Some(<<"e", "r", "r", "o", "r">>),
          Some(<<"O", "F", "F">>)}
    ELSE {None, Some(<<"W", "A", "R", "N">>), Some(<<"T", "r", "a", "c", "e">>)}

InitEvents ==
    /\ lenv = [n \in LevelEnvNames |-> None]
    /\ MIN_LEVEL = None
    /\ minLevelEnv = None
    /\ lCalls = <<>>

SetLevelEnv ==
    /\ \E n \in LevelEnvNames : \E v \in LevelEnvValues(n) :
        /\ v # lenv[n]
        /\ lenv' = [lenv EXCEPT ![n] = v]
    /\ UNCHANGED <<MIN_LEVEL, minLevelEnv, lCalls, fwdVars, sinkVars, expVars, tailVars, spanVars, assocVars, renderVars, barVars>>

RecordEvent ==
    /\ Len(lCalls) < MaxEventCalls
    /\ \E level \in EventLevels, span_is_disabled \in BOOLEAN :
        /\ MIN_LEVEL' = get_or_init(MIN_LEVEL, lenv)
        /\ minLevelEnv' = IF MIN_LEVEL = None THEN Some(lenv) ELSE minLevelEnv
        /\ lCalls' = Append(lCalls,
                            [level |-> level,
                             outcome |-> record_event_impl(level, get_min_level(MIN_LEVEL, lenv),
                                                           span_is_disabled)])
    /\ UNCHANGED <<lenv, fwdVars, sinkVars, expVars, tailVars, spanVars, assocVars, renderVars, barVars>>

NextEvents ==
    \/ SetLevelEnv
    \/ RecordEvent

\* ------------------------------------------------------------------------
\* Timeline renderer: display_console
\* ------------------------------------------------------------------------
MaxRenderItems == 3    \* units in a batch given to display_console
MaxBarValue == 4       \* largest time and width given to render_bar alone
TimelineWidth == 4     \* --timeline-width of the rendered sessions

\* render_bar: the cells of the bar, TRUE for a filled one. The fractions
\* offset / D and duration / D, times the width, are compared with the
\* midpoint i + 1/2 of cell i; both sides are multiplied by 2 * D here.
saturating_sub(a, b) == IF a >= b THEN a - b ELSE 0
\* faulty variant: the cell is filled when its left edge is in the range
render_bar_left_edge(start_time_ns, duration_ns, trace_start_time_ns, trace_duration_ns, timeline_width) ==
    IF trace_duration_ns = 0 THEN [i \in 1..timeline_width |-> FALSE]
    ELSE [i \in 1..timeline_width |->
            /\ (i - 1) * trace_duration_ns
                    >= saturating_sub(start_time_ns, trace_start_time_ns) * timeline_width
            /\ (i - 1) * trace_duration_ns
                    < (saturating_sub(start_time_ns, trace_start_time_ns) + duration_ns)
                          * timeline_width]

render_bar(start_time_ns, duration_ns, trace_start_time_ns, trace_duration_ns, timeline_width) ==
    IF trace_duration_ns = 0 THEN [i \in 1..timeline_width |-> FALSE]
    ELSE [i \in 1..timeline_width |->
            /\ (2 * (i - 1) + 1) * trace_duration_ns
                    >= 2 * saturating_sub(start_time_ns, trace_start_time_ns) * timeline_width
            /\ (2 * (i - 1) + 1) * trace_duration_ns
                    < 2 * (saturating_sub(start_time_ns, trace_start_time_ns) + duration_ns)
                          * timeline_width]

\* A span: its trace id, span id, parent span id (0 for the empty one) and
\* its times. A unit is given by what ExportTraceServiceRequest::decode
\* makes of its payload: an error, or the spans of the request in order.
SpanIds == {1, 2, 3}
ConsoleSpanOf(trace_id, span_id, parent_span_id, start, end) ==
    [trace_id |-> trace_id, span_id |-> span_id, parent_span_id |-> parent_span_id,
     start_time_unix_nano |-> start, end_time_unix_nano |-> end]
RenderSpans ==
    { ConsoleSpanOf(1, 1, 0, 0, 4),     \* a root
      ConsoleSpanOf(1, 2, 1, 1, 2),     \* its child
      ConsoleSpanOf(1, 3, 1, 1, 3),     \* another child, with the same start
      ConsoleSpanOf(1, 2, 0, 0, 1),     \* a root with the start of the first one
      ConsoleSpanOf(1, 3, 3, 2, 3),     \* its own parent
      ConsoleSpanOf(1, 1, 2, 0, 2),     \* child of 2, which may be a child of 1
      ConsoleSpanOf(1, 3, 9, 0, 2),     \* its parent is not in the batch
      ConsoleSpanOf(2, 1, 0, 1, 1),     \* of another trace, of no duration
      ConsoleSpanOf(2, 2, 1, 0, 3),     \* starts before its root
      ConsoleSpanOf(1, 3, 2, 3, 2) }    \* ends before it starts
RenderItems ==
    {Err("failed to decode Protobuf message")}
        \cup { Ok(<<s>>) : s \in RenderSpans }
        \cup {Ok(<<ConsoleSpanOf(1, 1, 0, 0, 4), ConsoleSpanOf(2, 1, 0, 1, 1)>>)}
HashOrders == { o \in [1..3 -> SpanIds] : \A i, j \in 1..3 : o[i] = o[j] => i = j }

\* faulty variant: the first unit that fails to decode ends the collection
RECURSIVE spans_with_service_until_error(_)
spans_with_service_until_error(batch) ==
    IF batch = <<>> \/ ~Head(batch).ok THEN <<>>
    ELSE Head(batch).val \o spans_with_service_until_error(Tail(batch))

\* the spans of the units that decode, in batch order
RECURSIVE spans_with_service(_)
spans_with_service(batch) ==
    IF batch = <<>> THEN <<>>
    ELSE (IF Head(batch).ok THEN Head(batch).val ELSE <<>>)
            \o spans_with_service(Tail(batch))

\* traces.entry(trace_id).or_default().push(..)
trace_ids(spans) == { spans[i].trace_id : i \in 1..Len(spans) }
spans_in_trace(spans, trace_id) == SelectSeq(spans, LAMBDA s : s.trace_id = trace_id)

\* span_map.insert(span_id, span): a later span replaces one of the same id
new_span_map(spans) ==
    [id \in { spans[i].span_id : i \in 1..Len(spans) } |->
        spans[CHOOSE i \in 1..Len(spans) :
                /\ spans[i].span_id = id
                /\ \A j \in (i + 1)..Len(spans) : spans[j].span_id # id]]
\* for (span_id_hex, span) in &span_map: the keys in the order of the map
map_keys(span_map, order) == SelectSeq(order, LAMBDA k : k \in DOMAIN span_map)

\* faulty variant: every span is taken for a root
is_root_every_span(span, span_map) == TRUE

\* a span is a root when its parent id is empty or is no key of span_map
is_root(span, span_map) ==
    \/ span.parent_span_id = 0
    \/ span.parent_span_id \notin DOMAIN span_map
root_ids(span_map, keys) == SelectSeq(keys, LAMBDA k : is_root(span_map[k], span_map))
\* parent_to_children_map.get(span_id).cloned().unwrap_or_default()
child_ids(span_map, keys, span_id) ==
    SelectSeq(keys, LAMBDA k : /\ span_map[k].parent_span_id = span_id
                              /\ span_map[k].parent_span_id # 0)

\* slice::sort_by_key(|s| s.start_time): a stable sort
RECURSIVE sort_insert(_, _)
sort_insert(sorted, node) ==
    IF sorted = <<>> THEN <<node>>
    ELSE IF sorted[Len(sorted)].start_time <= node.start_time THEN Append(sorted, node)
    ELSE Append(sort_insert(SubSeq(sorted, 1, Len(sorted) - 1), node), sorted[Len(sorted)])
\* faulty variant: the order of the vector is kept
sort_by_key_skipped(nodes) == nodes

RECURSIVE sort_by_key(_)
sort_by_key(nodes) ==
    IF nodes = <<>> THEN <<>>
    ELSE sort_insert(sort_by_key(SubSeq(nodes, 1, Len(nodes) - 1)), nodes[Len(nodes)])

\* build_console_span recurses with no limit of its own; the call stack
\* gives out at some depth, which is depth_limit here
ConsoleSpan(span, children, overflow) ==
    [id |-> span.span_id, span |-> span, start_time |-> span.start_time_unix_nano,
     duration_ns |-> saturating_sub(span.end_time_unix_nano, span.start_time_unix_nano),
     children |-> children, overflow |-> overflow]
RECURSIVE build_console_span(_, _, _, _)
build_children(child_id_seq, span_map, keys, depth_limit) ==
    sort_by_key([i \in 1..Len(child_id_seq) |->
                    build_console_span(child_id_seq[i], span_map, keys, depth_limit)])
build_console_span(span_id, span_map, keys, depth_limit) ==
    IF depth_limit = 0 THEN ConsoleSpan(span_map[span_id], <<>>, TRUE)
    ELSE ConsoleSpan(span_map[span_id],
                     build_children(child_ids(span_map, keys, span_id), span_map, keys,
                                    depth_limit - 1),
                     FALSE)

\* add_span_to_table: the row of the node, then the rows of its children
RECURSIVE add_span_to_table(_, _, _, _, _)
add_span_to_table(node, depth, trace_start_time_ns, trace_duration_ns, timeline_width) ==
    <<[span |-> node.span, depth |-> depth, overflow |-> node.overflow,
       bar |-> render_bar(node.start_time, node.duration_ns, trace_start_time_ns,
                          trace_duration_ns, timeline_width)]>>
        \o Flatten([i \in 1..Len(node.children) |->
                        add_span_to_table(sort_by_key(node.children)[i], depth + 1,
                                          trace_start_time_ns, trace_duration_ns,
                                          timeline_width)])

SeqMin(values, default) ==
    IF values = <<>> THEN default
    ELSE CHOOSE v \in { values[i] : i \in 1..Len(values) } :
            \A i \in 1..Len(values) : v <= values[i]
SetMax(values, default) ==
    IF values = {} THEN default ELSE CHOOSE v \in values : \A w \in values : v >= w

min_start_time(roots) == SeqMin([i \in 1..Len(roots) |-> roots[i].start_time], 0)
max_end_time(span_map) ==
    SetMax({ span_map[k].end_time_unix_nano : k \in DOMAIN span_map }, 0)

\* the table of one trace, from the sorted roots on
table_of_roots(roots, trace_start_time_ns, max_end, timeline_width) ==
    Flatten([i \in 1..Len(roots) |->
                add_span_to_table(roots[i], 0, trace_start_time_ns,
                                  saturating_sub(max_end, trace_start_time_ns),
                                  timeline_width)])
table_of_map(span_map, keys, timeline_width, roots) ==
    table_of_roots(roots, min_start_time(roots), max_end_time(span_map), timeline_width)
build_roots(span_map, keys, ids) ==
    sort_by_key([i \in 1..Len(ids) |->
                    build_console_span(ids[i], span_map, keys, Cardinality(DOMAIN span_map))])
table_of_keys(span_map, keys, timeline_width) ==
    table_of_map(span_map, keys, timeline_width,
                 build_roots(span_map, keys, root_ids(span_map, keys)))
trace_table(spans, order, timeline_width) ==
    table_of_keys(new_span_map(spans), map_keys(new_span_map(spans), order), timeline_width)

\* display_console: nothing when no span was decoded, else a table for
\* every key of traces (in the order of that HashMap, which is not kept
\* here: the tables are given by trace id)
tables_of(spans, order, timeline_width) ==
    [t \in trace_ids(spans) |-> trace_table(spans_in_trace(spans, t), order, timeline_width)]
display_console(batch, order, timeline_width) ==
    tables_of(spans_with_service(batch), order, timeline_width)

InitRenderer ==
    /\ rBatch = None
    /\ rOrder = None
    /\ rTables = None
    /\ bArgs = None
    /\ bBar = None

DisplayConsole ==
    /\ rTables = None
    /\ \E batch \in SeqsUpTo(RenderItems, MaxRenderItems) \ {<<>>}, order \in HashOrders :
        /\ rBatch' = Some(batch)
        /\ rOrder' = Some(order)
        /\ rTables' = Some(display_console(batch, order, TimelineWidth))
    /\ UNCHANGED <<bArgs, bBar, fwdVars, sinkVars, expVars, tailVars, spanVars, assocVars, levelVars>>

DisplayConsoleReturn ==
    /\ rTables # None
    /\ rBatch' = None
    /\ rOrder' = None
    /\ rTables' = None
    /\ UNCHANGED <<bArgs, bBar, fwdVars, sinkVars, expVars, tailVars, spanVars, assocVars, levelVars>>

NextRenderer ==
    \/ DisplayConsole
    \/ DisplayConsoleReturn

\* render_bar alone, on every small argument
RenderBar ==
    /\ bBar = None
    /\ \E start \in 0..MaxBarValue, end \in 0..MaxBarValue, trace_start \in 0..MaxBarValue,
          trace_duration \in 0..MaxBarValue, width \in 0..MaxBarValue :
        /\ bArgs' = Some([start |-> start, end |-> end, trace_start |-> trace_start,
                          trace_duration |-> trace_duration, width |-> width])
        /\ bBar' = Some(render_bar(start, saturating_sub(end, start), trace_start,
                                    trace_duration, width))
    /\ UNCHANGED <<rBatch, rOrder, rTables, fwdVars, sinkVars, expVars, tailVars, spanVars, assocVars, levelVars>>

RenderBarReturn ==
    /\ bBar # None
    /\ bArgs' = None
    /\ bBar' = None
    /\ UNCHANGED <<rBatch, rOrder, rTables, fwdVars, sinkVars, expVars, tailVars, spanVars, assocVars, levelVars>>

NextRenderBar ==
    \/ RenderBar
    \/ RenderBarReturn

\* ------------------------------------------------------------------------
\* Specifications
\* ------------------------------------------------------------------------
Init == InitForwarder /\ InitSink /\ InitExporter /\ InitLiveTail /\ InitSpanParser
        /\ InitAssoc /\ InitEvents /\ InitRenderer

SpecForwarder == Init /\ [][NextForwarder]_vars
SpecCompactor == Init /\ [][NextCompactor]_vars
SpecSender == Init /\ [][NextSender]_vars
SpecCompactorConfig == Init /\ [][NextCompactorConfig]_vars
SpecSink == Init /\ [][NextSink]_vars
SpecExporter == Init /\ [][NextExporter]_vars
SpecExporterConfig == Init /\ [][NextExporterConfig]_vars
SpecExporterSettings == Init /\ [][NextExporterSettings]_vars
SpecLiveTail == Init /\ [][NextLiveTail]_vars
SpecSpanParser == Init /\ [][NextSpanParser]_vars
SpecAssoc == Init /\ [][NextAssoc]_vars
SpecEvents == Init /\ [][NextEvents]_vars
SpecRenderer == Init /\ [][NextRenderer]_vars
SpecRenderBar == Init /\ [][NextRenderBar]_vars

\* ------------------------------------------------------------------------
\* Properties of the forwarder core
\* ------------------------------------------------------------------------
Decodable(unit) == Origin(unit) # None
\* the request a unit carries, after undoing its content encoding
CarriedRequest(unit) ==
    decode_otlp_payload(IF unit.content_encoding = Some(CE_GZIP)
                        THEN GzDecode(unit.payload).val ELSE unit.payload)
\* the resource_spans of the units a batch was built from, in batch order
ExpectedSpans(batch) ==
    Flatten([i \in 1..Len(batch) |->
                IF Decodable(batch[i]) THEN Origin(batch[i])[1].resource_spans ELSE <<>>])
\* send_telemetry_batch can build a request for the unit in this environment
Sendable(e, unit) ==
    /\ resolve_otlp_endpoint(e).ok
    /\ HeaderValueValid(unit.content_type)
    /\ unit.content_encoding # None => HeaderValueValid(unit.content_encoding[1])
IsPrefix(s, t) == Len(s) <= Len(t) /\ s = SubSeq(t, 1, Len(s))
Reserved == {CONTENT_TYPE, CONTENT_ENCODING}
CustomHeaders(h) == [n \in DOMAIN h \ Reserved |-> h[n]]

\* C1 (as claimed): parse, compact and send run in that order and stop at the
\* first failing stage; a failed parse, an empty parse and a failed
\* compaction issue no POST; otherwise exactly one POST is issued and the
\* call's result is that POST's result.
C1_Original ==
    entry = "process" =>
        /\ IsPrefix(stages, <<"parse", "compact", "send">>)
        /\ ~parseOut[1].ok => stages = <<"parse">> /\ posts = <<>> /\ ~result[1].ok
        /\ (parseOut[1].ok /\ parseOut[1].val = <<>>) =>
                stages = <<"parse">> /\ posts = <<>> /\ result[1].ok
        /\ (cOut # None /\ ~cOut[1].ok) =>
                stages = <<"parse", "compact">> /\ posts = <<>> /\ ~result[1].ok
        /\ (cOut # None /\ cOut[1].ok) =>
                /\ stages = <<"parse", "compact", "send">>
                /\ Len(posts) = 1
                /\ pc = "done" =>
                      result[1] = process_event_batch_result(
                                      send_telemetry_batch_result(resp[1]))

\* C1 (amended): as claimed, except that the send stage issues at most one
\* POST: exactly one when send_telemetry_batch can build the request (the
\* endpoint resolves to a URL, the unit's content type and encoding are
\* header values), and then the result is that POST's result; none
\* otherwise, and then the call returns the sender's error.
C1_Pipeline ==
    entry = "process" =>
        /\ IsPrefix(stages, <<"parse", "compact", "send">>)
        /\ ~parseOut[1].ok =>
                /\ stages = <<"parse">> /\ posts = <<>> /\ cOut = None
                /\ pc = "done" /\ ~result[1].ok
                /\ result[1].ctx = <<"Event parsing failed">>
        /\ (parseOut[1].ok /\ parseOut[1].val = <<>>) =>
                /\ stages = <<"parse">> /\ posts = <<>> /\ cOut = None
                /\ pc = "done" /\ result[1].ok
        /\ (parseOut[1].ok /\ parseOut[1].val # <<>>) => cOut # None
        /\ (cOut # None /\ ~cOut[1].ok) =>
                /\ stages = <<"parse", "compact">> /\ posts = <<>>
                /\ pc = "done" /\ ~result[1].ok
                /\ result[1].ctx = <<"Telemetry compaction failed">>
        /\ (cOut # None /\ cOut[1].ok) =>
                /\ stages = <<"parse", "compact", "send">>
                /\ Len(posts) <= 1
                /\ Len(posts) = 1 <=> Sendable(env, cOut[1].val)
                /\ posts # <<>> => posts[1].body = cOut[1].val.payload
                /\ posts = <<>> =>
                      /\ pc = "done" /\ ~result[1].ok
                      /\ result[1].ctx = <<"Sending telemetry batch failed">>
                /\ (posts # <<>> /\ pc = "done") =>
                      /\ result[1].ok <=>
                            (resp[1].kind = "response" /\ resp[1].status \in 200..299)
                      /\ ~result[1].ok =>
                            result[1].ctx = <<"Sending telemetry batch failed">>

C1_Witness ==
    /\ entry = "process" /\ pc = "done"
    /\ parseOut[1].ok /\ Len(parseOut[1].val) >= 2
    /\ Len(posts) = 1 /\ resp[1].kind = "response" /\ resp[1].status = 500
    /\ ~result[1].ok

\* C2: for a batch of two or more units of which at least one decodes, the
\* compacted unit carries a request whose resource_spans are the in-order
\* concatenation of the resource_spans of exactly the units that decode.
C2_MergeLaw ==
    (cBatch # None /\ Len(cBatch[1]) >= 2
        /\ \E i \in 1..Len(cBatch[1]) : Decodable(cBatch[1][i])) =>
            /\ cOut[1].ok
            /\ CarriedRequest(cOut[1].val).ok
            /\ CarriedRequest(cOut[1].val).val.resource_spans = ExpectedSpans(cBatch[1])

C2_Witness ==
    /\ entry = "compact" /\ cBatch # None /\ Len(cBatch[1]) = 3
    /\ cBatch[1][1] = UnitB /\ ~Decodable(cBatch[1][2]) /\ cBatch[1][3] = UnitA
    /\ cOut[1].ok
    /\ CarriedRequest(cOut[1].val).val.resource_spans = <<RsB, RsA>>

\* C3 (as claimed): a batch of any length, length 1 included, in which no
\* unit decodes makes compact_telemetry_payloads return an error, and so
\* does an empty batch.
C3_Original ==
    (cBatch # None /\ \A i \in 1..Len(cBatch[1]) : ~Decodable(cBatch[1][i])) =>
        ~cOut[1].ok

\* C3 (amended): a batch of two or more units in which no unit decodes makes
\* compact_telemetry_payloads return an error, so process_event_batch returns
\* an error and sends nothing, and so does an empty batch; a batch of one
\* unit is not decoded at all and is returned whatever its payload.
C3_TotalDecodeFailure ==
    /\ (cBatch # None /\ Len(cBatch[1]) # 1
            /\ \A i \in 1..Len(cBatch[1]) : ~Decodable(cBatch[1][i])) =>
                /\ ~cOut[1].ok
                /\ posts = <<>> /\ pc = "done" /\ ~result[1].ok
    /\ (cBatch # None /\ Len(cBatch[1]) = 1) =>
                /\ cOut[1].ok
                /\ cOut[1].val.source = cBatch[1][1].source
                /\ cCfg[1].compression = NoCompression =>
                        cOut[1].val.payload = cBatch[1][1].payload

C3_Witness ==
    /\ entry = "process" /\ pc = "done"
    /\ cBatch # None /\ Len(cBatch[1]) = 2
    /\ \A i \in 1..2 : ~Decodable(cBatch[1][i])
    /\ ~result[1].ok /\ posts = <<>>

\* C7 (as claimed): each call of send_telemetry_batch makes exactly one POST
\* attempt; it succeeds iff the status is 2xx; a non-2xx response gives an
\* error with the status code and the response body; a transport failure
\* gives an error.
C7_Original ==
    (entry = "send" /\ pc = "done") =>
        /\ Len(posts) = 1
        /\ resp # None
        /\ result[1].ok <=> (resp[1].kind = "response" /\ resp[1].status \in 200..299)
        /\ (resp[1].kind = "response" /\ resp[1].status \notin 200..299) =>
                result[1].status = resp[1].status /\ Some(result[1].body) = resp[1].text

\* C7 (amended): each call of send_telemetry_batch makes at most one POST
\* attempt and never a second one: exactly one when the request can be
\* built, none (and an error) when the endpoint does not resolve or the
\* unit's content type or encoding is not a header value; after a POST the
\* call succeeds iff the status is 2xx; a non-2xx response gives an error
\* with the status code and, when the body can be read, the body; a
\* transport failure gives an error.
C7_SingleAttempt ==
    /\ Len(posts) <= 1
    /\ entry = "send" =>
        /\ Len(posts) = 1 <=> Sendable(env, sUnit[1])
        /\ posts = <<>> => pc = "done" /\ ~result[1].ok
        /\ pc = "posting" => posts # <<>> /\ result = None
        /\ (pc = "done" /\ posts # <<>>) =>
            /\ resp # None
            /\ result[1].ok <=> (resp[1].kind = "response" /\ resp[1].status \in 200..299)
            /\ (resp[1].kind = "response" /\ resp[1].status \notin 200..299) =>
                    /\ result[1].status = resp[1].status
                    /\ resp[1].text # None => result[1].body = resp[1].text[1]
            /\ resp[1].kind = "error" => ~result[1].ok

C7_Witness ==
    /\ entry = "send" /\ pc = "done" /\ Len(posts) = 1
    /\ resp[1].kind = "response" /\ resp[1].status = 500 /\ resp[1].text # None
    /\ ~result[1].ok /\ result[1].status = 500 /\ result[1].body = <<"Internal Error">>

\* C8: in every request, Content-Type is the unit's content type and
\* Content-Encoding is present iff the unit has a content encoding, and then
\* equals it; neither is decided by the header environment variables.
C8_ContentHeaders ==
    \A i \in 1..Len(posts) :
        /\ CONTENT_TYPE \in DOMAIN posts[i].headers
        /\ posts[i].headers[CONTENT_TYPE] = <<sUnit[1].content_type>>
        /\ CONTENT_ENCODING \in DOMAIN posts[i].headers <=> sUnit[1].content_encoding # None
        /\ sUnit[1].content_encoding # None =>
                posts[i].headers[CONTENT_ENCODING] = sUnit[1].content_encoding

C8_Witness ==
    /\ env["OTEL_EXPORTER_OTLP_TRACES_HEADERS"] = Some(H_reserved)
    /\ Len(posts) = 1 /\ sUnit[1].content_encoding = None
    /\ CONTENT_ENCODING \notin DOMAIN posts[1].headers
    /\ posts[1].headers[CONTENT_TYPE] = <<CT_PROTOBUF>>
    /\ <<"k">> \in DOMAIN posts[1].headers

\* C9 (as claimed): the custom headers of a request are the union of the
\* entries of both header variables, the trace-specific value winning on a
\* shared key: x=1,y=2 with y=3,z=4 gives x=1, y=3, z=4.
C9_Original ==
    \A i \in 1..Len(posts) :
        LET general == IF env["OTEL_EXPORTER_OTLP_HEADERS"] = None THEN EmptyHeaders
                       ELSE parse_otlp_headers(env["OTEL_EXPORTER_OTLP_HEADERS"][1])
            traces == IF env["OTEL_EXPORTER_OTLP_TRACES_HEADERS"] = None THEN EmptyHeaders
                      ELSE parse_otlp_headers(env["OTEL_EXPORTER_OTLP_TRACES_HEADERS"][1])
            union == [n \in DOMAIN general \cup DOMAIN traces |->
                        IF n \in DOMAIN traces THEN traces[n] ELSE general[n]]
        IN  CustomHeaders(posts[i].headers) = CustomHeaders(union)

\* C9 (amended): the custom headers of a request are the entries of
\* OTEL_EXPORTER_OTLP_TRACES_HEADERS alone when that variable is set and not
\* empty, otherwise those of OTEL_EXPORTER_OTLP_HEADERS; the two are never
\* merged: x=1,y=2 with y=3,z=4 gives y=3 and z=4 only.
C9_TracesHeadersReplace ==
    \A i \in 1..Len(posts) :
        LET general == env["OTEL_EXPORTER_OTLP_HEADERS"]
            traces == env["OTEL_EXPORTER_OTLP_TRACES_HEADERS"]
            custom == CustomHeaders(posts[i].headers)
        IN  /\ (traces # None /\ traces # Some(<<>>)) =>
                    custom = CustomHeaders(parse_otlp_headers(traces[1]))
            /\ (traces \in {None, Some(<<>>)} /\ general # None) =>
                    custom = CustomHeaders(parse_otlp_headers(general[1]))
            /\ (traces \in {None, Some(<<>>)} /\ general = None) => custom = EmptyHeaders
            /\ (traces = Some(H_yz) /\ general = Some(H_xy)) =>
                    custom = (<<"y">> :> <<<<"3">>>>) @@ (<<"z">> :> <<<<"4">>>>)
            /\ (traces = Some(<<>>) /\ general = Some(H_xy)) =>
                    custom = (<<"x">> :> <<<<"1">>>>) @@ (<<"y">> :> <<<<"2">>>>)

C9_Witness ==
    /\ env["OTEL_EXPORTER_OTLP_TRACES_HEADERS"] = Some(H_yz)
    /\ env["OTEL_EXPORTER_OTLP_HEADERS"] = Some(H_xy)
    /\ Len(posts) = 1
    /\ <<"x">> \notin DOMAIN posts[1].headers
    /\ posts[1].headers[<<"y">>] = <<<<"3">>>>
\* ------------------------------------------------------------------------
\* Properties of the sinks, the exporter and the envelope parser
\* ------------------------------------------------------------------------
\* C4: whatever the sink kind and however the write_line calls overlap, the
\* bytes of one call (its line and its newline) reach the destination as one
\* contiguous run: no byte of another call lies between two bytes of a call.
C4_WholeLines ==
    \A i, j \in 1..Len(sinkOut) :
        (i < j /\ sinkOut[i].call = sinkOut[j].call) =>
            \A k \in i..j : sinkOut[k].call = sinkOut[i].call

\* the spans the batch holds for one scope, in batch order
SpansInScope(batch, scope) ==
    LET sel == SelectSeq(batch, LAMBDA sd : sd.scope = scope)
    IN  [i \in 1..Len(sel) |-> [span_id |-> sel[i].span_id, name |-> sel[i].name]]

\* C5: the line export writes for a batch, given to the envelope parser,
\* yields a payload that decodes to the spans of the batch under the
\* exporter's resource, one group for each instrumentation scope of the
\* batch, each group holding the spans of its scope in batch order.
C5_RoundTrip ==
    xpc = "parsed" =>
        /\ xParsed[1].ok
        /\ xParsed[1].val # None
        /\ xParsed[1].val[1].original_source = get_service_name(xenv)
        /\ LET req == decode_otlp_payload(xParsed[1].val[1].payload)
           IN  /\ req.ok
               /\ Len(req.val.resource_spans) = 1
               /\ LET rs == req.val.resource_spans[1]
                  IN  /\ rs.resource = (IF exporter[1].resource = None THEN 0
                                        ELSE exporter[1].resource[1])
                      /\ Len(rs.scope_spans) = Cardinality(ScopesOf(xBatch[1]))
                      /\ { rs.scope_spans[i].scope : i \in 1..Len(rs.scope_spans) }
                            = ScopesOf(xBatch[1])
                      /\ \A i \in 1..Len(rs.scope_spans) :
                            rs.scope_spans[i].spans
                                = SpansInScope(xBatch[1], rs.scope_spans[i].scope)

C5_Witness ==
    /\ xpc = "parsed"
    /\ xBatch[1] = <<SpanDataC, SpanDataB, SpanDataA>>
    /\ exporter[1].resource = Some(7)
    /\ LET rs == decode_otlp_payload(xParsed[1].val[1].payload).val.resource_spans[1]
       IN  /\ rs.resource = 7
           /\ rs.scope_spans[1] = [scope |-> 2, spans |-> <<[span_id |-> 2, name |-> 66]>>]
           /\ rs.scope_spans[2] = [scope |-> 1, spans |-> <<[span_id |-> 3, name |-> 67],
                                                            [span_id |-> 1, name |-> 65]>>]

\* C6: export of an empty batch returns success and gives no line to the
\* output.
C6_EmptyBatchNoOp ==
    xBatch = Some(<<>>) => (xResult[1].ok /\ xLines = <<>>)

\* the entries of a header variable as the exporter reads them
HeaderEntries(var) == IF var = None THEN EmptyMap ELSE parse_header_string(var[1], EmptyMap)

\* C10: the exporter's headers are the union of the constructor's headers
\* and the entries of OTEL_EXPORTER_OTLP_HEADERS and of
\* OTEL_EXPORTER_OTLP_TRACES_HEADERS; on a shared key the trace-specific
\* variable wins over the general one and either wins over the constructor;
\* the keys of the environment are compared in lower case.
C10_HeaderPrecedence ==
    exporter # None =>
        LET c == OptionMap(xargs[1].args.headers)
            g == HeaderEntries(xargs[1].env["OTEL_EXPORTER_OTLP_HEADERS"])
            t == HeaderEntries(xargs[1].env["OTEL_EXPORTER_OTLP_TRACES_HEADERS"])
            h == OptionMap(exporter[1].headers)
        IN  /\ DOMAIN h = DOMAIN c \cup DOMAIN g \cup DOMAIN t
            /\ \A k \in DOMAIN h :
                    h[k] = IF k \in DOMAIN t THEN t[k]
                           ELSE IF k \in DOMAIN g THEN g[k] ELSE c[k]
            /\ \A k \in DOMAIN g \cup DOMAIN t : \A i \in 1..Len(k) : k[i] = ToLowerChar(k[i])
            /\ (/\ xargs[1].args.headers = Some(HC_Xyw)
                /\ xargs[1].env["OTEL_EXPORTER_OTLP_HEADERS"] = Some(HX_Xy)
                /\ xargs[1].env["OTEL_EXPORTER_OTLP_TRACES_HEADERS"] = Some(HX_Yz)) =>
                    h = (<<"X">> :> <<"0">>) @@ (<<"x">> :> <<"1">>) @@ (<<"y">> :> <<"3">>)
                            @@ (<<"z">> :> <<"4">>) @@ (<<"w">> :> <<"8">>)

C10_Witness ==
    /\ exporter # None
    /\ xargs[1].args.headers = Some(HC_Xyw)
    /\ xargs[1].env["OTEL_EXPORTER_OTLP_HEADERS"] = Some(HX_Xy)
    /\ xargs[1].env["OTEL_EXPORTER_OTLP_TRACES_HEADERS"] = Some(HX_Yz)
    /\ exporter[1].headers[1][<<"y">>] = <<"3">>
    /\ exporter[1].headers[1][<<"x">>] = <<"1">>
    /\ exporter[1].headers[1][<<"X">>] = <<"0">>

\* the keys of the headers object of an envelope line
LineHeaderKeys(line) ==
    UNION { DOMAIN line[i].value : i \in { j \in 1..Len(line) : line[j].key = "headers" } }

\* C11: whatever the constructor's headers and the header variables of the
\* environment, the headers object of a written envelope line has no key
\* that is content-type or content-encoding in any letter case.
C11_NoReservedHeaders ==
    \A i \in 1..Len(xLines) :
        \A k \in LineHeaderKeys(xLines[i]) :
            to_lowercase(k) \notin {CONTENT_TYPE, CONTENT_ENCODING}

\* what a variable of the exporter's environment gives when it is set and valid
EnvCompressionLevel(e) ==
    LET v == e["OTLP_STDOUT_SPAN_EXPORTER_COMPRESSION_LEVEL"]
    IN  IF v # None /\ ParseUnsigned(v[1]).ok /\ ParseUnsigned(v[1]).val <= 9
        THEN Some(ParseUnsigned(v[1]).val) ELSE None
EnvLogLevel(e) ==
    LET v == e["OTLP_STDOUT_SPAN_EXPORTER_LOG_LEVEL"]
    IN  IF v = None THEN None
        ELSE IF to_lowercase(v[1]) = <<"e", "r", "r", "o", "r">> THEN Some("Error")
        ELSE IF to_lowercase(v[1]) = <<"d", "e", "b", "u", "g">> THEN Some("Debug")
        ELSE IF to_lowercase(v[1]) = <<"i", "n", "f", "o">> THEN Some("Info")
        ELSE IF to_lowercase(v[1]) \in {<<"w", "a", "r", "n">>, <<"w", "a", "r", "n", "i", "n", "g">>}
        THEN Some("Warn") ELSE None
KnownScheme(uri) == uri # <<>> /\ Head(uri) \in {"stdout://", "file://", "pipe://"}
SinkOfUri(uri) ==
    IF ~KnownScheme(uri) THEN None
    ELSE IF Head(uri) = "stdout://" THEN Some([kind |-> "stdout", path |-> <<>>])
    ELSE IF Head(uri) = "file://" /\ Tail(uri) # <<>> /\ Head(Tail(uri)) = "?" THEN None
    ELSE Some([kind |-> IF Head(uri) = "file://" THEN "file" ELSE "pipe", path |-> Tail(uri)])
EnvOutput(e) ==
    LET v == e["OTLP_STDOUT_SPAN_EXPORTER_OUTPUT_PATH"]
    IN  IF v = None THEN None ELSE SinkOfUri(v[1])

\* C12: the compression level, the log level and the output of an exporter
\* are what the environment variable gives when it is set and valid,
\* otherwise the constructor's argument when one was given, otherwise the
\* default (6, no log level, stdout); a variable whose value is not valid
\* counts as unset.
C12_ConfigPrecedence ==
    exporter # None =>
        LET a == xargs[1].args
            e == xargs[1].env
            x == exporter[1]
        IN  /\ x.compression_level =
                    IF EnvCompressionLevel(e) # None THEN EnvCompressionLevel(e)[1]
                    ELSE IF a.compression_level # None THEN a.compression_level[1]
                    ELSE 6
            /\ x.level = IF EnvLogLevel(e) # None THEN EnvLogLevel(e)
                         ELSE IF a.level # None THEN a.level ELSE None
            /\ (\/ EnvOutput(e) # None \/ a.output # None
                \/ a.output_path = None \/ SinkOfUri(a.output_path[1]) # None) =>
                    x.output = IF EnvOutput(e) # None THEN EnvOutput(e)[1]
                               ELSE IF a.output # None THEN a.output[1]
                               ELSE IF a.output_path # None THEN SinkOfUri(a.output_path[1])[1]
                               ELSE [kind |-> "stdout", path |-> <<>>]

C12_Witness ==
    /\ exporter # None
    /\ xargs[1].args.compression_level = Some(1)
    /\ xargs[1].args.level = Some("Debug")
    /\ xargs[1].args.output = Some(TestOutput)
    /\ xargs[1].env["OTLP_STDOUT_SPAN_EXPORTER_COMPRESSION_LEVEL"] = Some(<<"1", "2">>)
    /\ xargs[1].env["OTLP_STDOUT_SPAN_EXPORTER_LOG_LEVEL"] = Some(<<"E", "r", "r", "o", "r">>)
    /\ xargs[1].env["OTLP_STDOUT_SPAN_EXPORTER_OUTPUT_PATH"] = Some(<<"file://", "f">>)
    /\ exporter[1].compression_level = 1
    /\ exporter[1].level = Some("Error")
    /\ exporter[1].output = [kind |-> "file", path |-> <<"f">>]

\* C13: an output path whose scheme is not stdout://, file:// or pipe://,
\* from the environment or from the constructor, makes the resolution fail:
\* no exporter and no sink come out of it.
C13_UnknownSchemeFails ==
    exporter # None =>
        LET a == xargs[1].args
            v == xargs[1].env["OTLP_STDOUT_SPAN_EXPORTER_OUTPUT_PATH"]
        IN  /\ (v # None => KnownScheme(v[1]))
            /\ ((v = None /\ a.output = None /\ a.output_path # None)
                    => KnownScheme(a.output_path[1]))

\* ------------------------------------------------------------------------
\* Properties of the sender's endpoint and timeout
\* ------------------------------------------------------------------------
NonEmptyVar(name) == env[name] # None /\ env[name][1] # <<>>
\* a send_telemetry_batch call has resolved its configuration
SendResolved == entry = "send" /\ pc \in {"posting", "done"}
\* the call stopped on an invalid URL, with the message msg
InvalidUrlFrom(msg) ==
    /\ posts = <<>>
    /\ result # None /\ ~result[1].ok
    /\ result[1].err = msg
\* the request went to the URL that the text str denotes
PostedTo(str) == posts # <<>> => UrlParse(posts[1].url) = UrlParse(str)
StripSlash(s) == IF s # <<>> /\ s[Len(s)] = "/" THEN SubSeq(s, 1, Len(s) - 1) ELSE s
ValidUrl(str) == str # <<>> /\ Head(str) \in Origins

\* C14 as stated: a general endpoint U is used as it is when the text of U
\* ends in /v1/traces, and otherwise as U without its trailing slash,
\* followed by /v1/traces.
C14_Original ==
    (/\ SendResolved
     /\ ~NonEmptyVar("OTEL_EXPORTER_OTLP_TRACES_ENDPOINT")
     /\ NonEmptyVar("OTEL_EXPORTER_OTLP_ENDPOINT")
     /\ ValidUrl(env["OTEL_EXPORTER_OTLP_ENDPOINT"][1])) =>
        LET U == env["OTEL_EXPORTER_OTLP_ENDPOINT"][1]
        IN  PostedTo(IF ends_with(U, OTLP_TRACES_PATH) THEN U
                     ELSE StripSlash(U) \o OTLP_TRACES_PATH)

\* the path of a URL text and what follows the path
PathOfText(str) ==
    LET rest == Tail(str)
        p == IF IndexOf(rest, "?") = 0 THEN rest ELSE SubSeq(rest, 1, IndexOf(rest, "?") - 1)
    IN  IF p = <<>> THEN <<"/">> ELSE p
QueryOfText(str) ==
    LET rest == Tail(str)
    IN  IF IndexOf(rest, "?") = 0 THEN <<>> ELSE SubSeq(rest, IndexOf(rest, "?"), Len(rest))
RECURSIVE StripSlashes(_)
StripSlashes(s) == IF s # <<>> /\ s[Len(s)] = "/" THEN StripSlashes(StripSlash(s)) ELSE s

\* C14, amended: a non-empty OTEL_EXPORTER_OTLP_TRACES_ENDPOINT is the URL
\* of the request; otherwise a non-empty OTEL_EXPORTER_OTLP_ENDPOINT U is,
\* as it is when the path of U ends in /v1/traces and otherwise with the
\* path of U, all of its trailing slashes removed, followed by /v1/traces,
\* the query of U kept behind the path; otherwise the default is. An empty
\* value counts as unset, and an invalid URL in the selected variable ends
\* the call with an error, no lower tier being used.
C14_EndpointResolution ==
    SendResolved =>
        IF NonEmptyVar("OTEL_EXPORTER_OTLP_TRACES_ENDPOINT")
        THEN LET T == env["OTEL_EXPORTER_OTLP_TRACES_ENDPOINT"][1]
             IN  IF ValidUrl(T) THEN PostedTo(T) /\ (posts # <<>> \/ ~result[1].ok)
                 ELSE InvalidUrlFrom("Invalid URL from OTEL_EXPORTER_OTLP_TRACES_ENDPOINT")
        ELSE IF NonEmptyVar("OTEL_EXPORTER_OTLP_ENDPOINT")
        THEN LET U == env["OTEL_EXPORTER_OTLP_ENDPOINT"][1]
             IN  IF ~ValidUrl(U) THEN InvalidUrlFrom("Invalid URL from OTEL_EXPORTER_OTLP_ENDPOINT")
                 ELSE posts # <<>> =>
                        posts[1].url =
                            <<Head(U)>>
                                \o (IF ends_with(PathOfText(U), OTLP_TRACES_PATH)
                                    THEN PathOfText(U)
                                    ELSE StripSlashes(PathOfText(U)) \o OTLP_TRACES_PATH)
                                \o QueryOfText(U)
        ELSE posts # <<>> => posts[1].url = <<"http://localhost:4318">> \o OTLP_TRACES_PATH

C14_Witness ==
    /\ SendResolved
    /\ env["OTEL_EXPORTER_OTLP_TRACES_ENDPOINT"] = Some(<<>>)
    /\ env["OTEL_EXPORTER_OTLP_ENDPOINT"] = Some(U_custom \o <<"/", "/">>)
    /\ posts # <<>>
    /\ posts[1].url = U_custom \o OTLP_TRACES_PATH

\* the timeout variable that is selected, if any
SelectedTimeout ==
    IF NonEmptyVar("OTEL_EXPORTER_OTLP_TRACES_TIMEOUT")
    THEN env["OTEL_EXPORTER_OTLP_TRACES_TIMEOUT"]
    ELSE IF NonEmptyVar("OTEL_EXPORTER_OTLP_TIMEOUT") THEN env["OTEL_EXPORTER_OTLP_TIMEOUT"]
    ELSE None
Millis(s) ==
    IF s = <<"5", "0", "0", "0">> THEN Some(5000)
    ELSE IF s = <<"2", "5", "0">> THEN Some(250) ELSE None

\* C15: the timeout of a request is the number of milliseconds written in
\* OTEL_EXPORTER_OTLP_TRACES_TIMEOUT when that is set and not empty, else
\* in OTEL_EXPORTER_OTLP_TIMEOUT; with no variable, or a selected value
\* that is not an unsigned integer, it is 10 seconds, and no call ends
\* with an error on account of the timeout.
C15_TimeoutResolution ==
    SendResolved =>
        /\ posts # <<>> =>
                posts[1].timeout =
                    IF SelectedTimeout # None /\ Millis(SelectedTimeout[1]) # None
                    THEN Millis(SelectedTimeout[1])[1]
                    ELSE 10000
        /\ (~NonEmptyVar("OTEL_EXPORTER_OTLP_TRACES_ENDPOINT")
                /\ ~NonEmptyVar("OTEL_EXPORTER_OTLP_ENDPOINT")
                /\ sUnit[1] \in {UnitA, UnitB, UnitGz}) => posts # <<>>

C15_Witness ==
    /\ SendResolved
    /\ env["OTEL_EXPORTER_OTLP_TRACES_TIMEOUT"] = Some(<<"5", "s">>)
    /\ env["OTEL_EXPORTER_OTLP_TIMEOUT"] = Some(<<"2", "5", "0">>)
    /\ posts # <<>>
    /\ posts[1].timeout = 10000

\* ------------------------------------------------------------------------
\* Properties of the compactor's default configuration
\* ------------------------------------------------------------------------
ConfigBuilt == entry = "config" /\ pc = "done"
SelectedCompression ==
    IF env["OTEL_EXPORTER_OTLP_TRACES_COMPRESSION"] # None
    THEN env["OTEL_EXPORTER_OTLP_TRACES_COMPRESSION"]
    ELSE env["OTEL_EXPORTER_OTLP_COMPRESSION"]
IsGzipWord(s) ==
    /\ Len(s) = 4
    /\ s[1] \in {"g", "G"} /\ s[2] \in {"z", "Z"} /\ s[3] \in {"i", "I"} /\ s[4] \in {"p", "P"}

\* C16 as stated: the preference is that of the trace-specific variable if
\* set, else of the general one; gzip in any letter case gives Gzip, every
\* other value None, and no variable set gives Gzip.
C16_Original ==
    ConfigBuilt =>
        /\ cCfg # None
        /\ cCfg[1].compression =
                IF SelectedCompression = None THEN Gzip
                ELSE IF IsGzipWord(SelectedCompression[1]) THEN Gzip ELSE NoCompression

\* C16, amended: as stated, except that no variable set gives None.
C16_DefaultCompression ==
    ConfigBuilt =>
        /\ cCfg # None
        /\ cCfg[1].compression =
                IF SelectedCompression # None /\ IsGzipWord(SelectedCompression[1])
                THEN Gzip ELSE NoCompression

C16_Witness ==
    /\ ConfigBuilt
    /\ env["OTEL_EXPORTER_OTLP_TRACES_COMPRESSION"] = Some(<<"G", "z", "I", "P">>)
    /\ env["OTEL_EXPORTER_OTLP_COMPRESSION"] = Some(<<"N", "O", "N", "E">>)
    /\ cCfg[1].compression = Gzip

\* ------------------------------------------------------------------------
\* Properties of the moment of resolution
\* ------------------------------------------------------------------------
\* C17: configuration is resolved once, when the exporter is created: a
\* line written by a later export carries as its source the service name
\* of the environment the exporter was created in, whatever the
\* environment has become since.
C17_ResolvedOnce ==
    \A i \in 1..Len(xLines) :
        JsonGet(xLines[i], "source") = get_service_name(xargs[1].env)

\* ------------------------------------------------------------------------
\* Properties of the live tail coordinator
\* ------------------------------------------------------------------------
BothEnabled == tArgs # None /\ ~tArgs[1].forward_only /\ tArgs[1].otlp_endpoint # None
Rendered(i) == tEvents[i].op = "display_console"
Forwarded(i) == tEvents[i].op = "send_batch"

\* C18: with console and endpoint both enabled, every flush is of a batch
\* that is not empty and renders it before it forwards it; a batch whose
\* rendering failed is not forwarded and the session ends there with that
\* error; a failed forwarding ends nothing: the session goes on, or ends
\* for another reason, and no error of main comes from it.
C18_RenderThenForward ==
    BothEnabled =>
        /\ \A i \in 1..Len(tEvents) : tEvents[i].batch # <<>>
        /\ \A i \in 1..Len(tEvents) :
              Forwarded(i) =>
                  /\ i > 1
                  /\ tEvents[i - 1] = [tEvents[i] EXCEPT !.op = "display_console", !.ok = TRUE]
        /\ \A i \in 1..Len(tEvents) :
              (Rendered(i) /\ tEvents[i].ok) =>
                  /\ i < Len(tEvents)
                  /\ Forwarded(i + 1) /\ tEvents[i + 1].batch = tEvents[i].batch
        /\ \A i \in 1..Len(tEvents) :
              (Rendered(i) /\ ~tEvents[i].ok) =>
                  /\ i = Len(tEvents)
                  /\ tpc = "exit"
                  /\ tResult = Some(Err("display_console failed"))
        /\ (tResult # None /\ ~tResult[1].ok) =>
              \/ tResult[1].err = "stream error"
              \/ /\ tEvents # <<>>
                 /\ Rendered(Len(tEvents)) /\ ~tEvents[Len(tEvents)].ok
        /\ (tEvents # <<>> /\ Forwarded(Len(tEvents)) /\ ~tEvents[Len(tEvents)].ok
                /\ tEvents[Len(tEvents)].at = "tick" /\ tpc # "exit") =>
              tpc \in {"loop", "final"} /\ tResult = None

C18_Witness ==
    /\ BothEnabled
    /\ Len(tEvents) = 4
    /\ Forwarded(2) /\ ~tEvents[2].ok /\ tEvents[2].batch = <<1>>
    /\ Rendered(3) /\ tEvents[3].ok /\ tEvents[3].batch = <<2, 3>>
    /\ Forwarded(4) /\ tEvents[4].ok
    /\ tpc = "loop"

\* the units of the calls of one kind, in the order of the calls
UnitsOf(op) ==
    Flatten([i \in 1..Len(SelectSeq(tEvents, LAMBDA c : c.op = op)) |->
                SelectSeq(tEvents, LAMBDA c : c.op = op)[i].batch])

\* C19: when the stream has closed and main has returned Ok, every unit
\* received is in exactly one rendered batch if the console is enabled and
\* in exactly one forwarded batch if an endpoint is set, those buffered
\* since the last tick included; the final flush happens at most once, and
\* no call is made for an empty buffer.
C19_FinalFlush ==
    (tpc = "exit" /\ tResult = Some(Ok(<<>>))) =>
        /\ telemetry_buffer = <<>>
        /\ \A i \in 1..Len(tEvents) : tEvents[i].batch # <<>>
        /\ console_enabled(tArgs[1]) => UnitsOf("display_console") = [i \in 1..tRecv |-> i]
        /\ ~console_enabled(tArgs[1]) => UnitsOf("display_console") = <<>>
        /\ endpoint_opt(tArgs[1]) # None => UnitsOf("send_batch") = [i \in 1..tRecv |-> i]
        /\ endpoint_opt(tArgs[1]) = None => UnitsOf("send_batch") = <<>>
        /\ Cardinality({ i \in 1..Len(tEvents) : tEvents[i].at = "final" })
              <= Cardinality({console_enabled(tArgs[1])} \cap {TRUE})
                    + Cardinality({endpoint_opt(tArgs[1]) # None} \cap {TRUE})

C19_Witness ==
    /\ tpc = "exit"
    /\ tResult = Some(Ok(<<>>))
    /\ BothEnabled
    /\ Len(tEvents) = 4
    /\ tEvents[1].at = "tick" /\ tEvents[1].batch = <<1>>
    /\ tEvents[3] = TailCall("display_console", "final", <<2, 3>>, TRUE)
    /\ tEvents[4].op = "send_batch" /\ tEvents[4].at = "final" /\ tEvents[4].batch = <<2, 3>>

\* ------------------------------------------------------------------------
\* Properties of the raw-JSON span parser
\* ------------------------------------------------------------------------
\* a record that is a span with an end time
FinishedSpan(m) ==
    /\ m.json
    /\ m.value.type = "object"
    /\ "endTimeUnixNano" \in DOMAIN m.value.members
    /\ m.value.members["endTimeUnixNano"].type = "number"

\* C20: parse returns Ok with one unit for each record that is a span with
\* an end time, in the order of the input; every other record (text that
\* is not JSON, JSON that is not an object, a span whose end time is
\* missing or null) is skipped, none of them ending the call with an
\* error or a panic.
C20_SkipsMalformed ==
    pResult # None =>
        LET finished == SelectSeq(pEvents[1], FinishedSpan)
        IN  /\ pResult[1].ok
            /\ Len(pResult[1].val) = Len(finished)
            /\ \A i \in 1..Len(finished) :
                  /\ pResult[1].val[i].source = "aws/spans"
                  /\ decode_otlp_payload(pResult[1].val[i].payload).ok
                  /\ decode_otlp_payload(pResult[1].val[i].payload).val
                        .resource_spans[1].scope_spans[1].spans[1].span_id
                        = finished[i].value.members["spanId"].n

\* the same with no record that is JSON but not an object
C20_ObjectsOnly ==
    (pResult # None /\ \A i \in 1..Len(pEvents[1]) :
                          pEvents[1][i].json => pEvents[1][i].value.type = "object")
        => C20_SkipsMalformed

\* ------------------------------------------------------------------------
\* Range of the exporter's compression level
\* ------------------------------------------------------------------------
\* C30: whatever the compression-level variable holds and whatever level
\* the constructor is given, the level the exporter keeps, which export
\* hands to the gzip encoder, is one of 0..9.
C30_LevelInRange ==
    exporter # None => exporter[1].compression_level \in 0..9

\* ------------------------------------------------------------------------
\* Compaction of a single unit without compression
\* ------------------------------------------------------------------------
SingleNone ==
    /\ entry = "compact"
    /\ cOut # None
    /\ Len(cBatch[1]) = 1
    /\ cCfg[1].compression = NoCompression

\* C22: compacting a batch of one unit with preference None returns Ok
\* with the unit's payload bytes, source, endpoint and content type as
\* they were given, and with no content encoding.
C22_SingleNoneIdentity ==
    SingleNone =>
        /\ cOut[1].ok
        /\ cOut[1].val.payload = cBatch[1][1].payload
        /\ cOut[1].val.source = cBatch[1][1].source
        /\ cOut[1].val.endpoint = cBatch[1][1].endpoint
        /\ cOut[1].val.content_type = cBatch[1][1].content_type
        /\ cOut[1].val.content_encoding = None

\* a unit that came with a content encoding went through
C22_Witness ==
    /\ SingleNone
    /\ cBatch[1][1].content_encoding # None
    /\ cOut[1].ok

\* ------------------------------------------------------------------------
\* Associativity of compaction
\* ------------------------------------------------------------------------
AllDecodable == kOut # None /\ \A i \in 1..3 : Decodable(kBatch[1][i])
SpansOfAll == ExpectedSpans(kBatch[1])
\* a Result of compaction is Ok, carries the resource_spans rs and has the
\* source and the endpoint of the first unit
Carries(r, rs) ==
    /\ r.ok
    /\ CarriedRequest(r.val).ok
    /\ CarriedRequest(r.val).val.resource_spans = rs
    /\ r.val.source = kBatch[1][1].source
    /\ r.val.endpoint = kBatch[1][1].endpoint

\* C28 as stated: for decodable a, b, c and every compression preference
\* the flat compaction and both two-step compactions succeed and carry the
\* same resource_spans, with a's source and endpoint.
C28_Original ==
    AllDecodable =>
        /\ Carries(kOut[1].flat, SpansOfAll)
        /\ Carries(kOut[1].left, SpansOfAll)
        /\ Carries(kOut[1].right, SpansOfAll)

\* C28 amended: with preference None the three agree. With preference
\* Gzip the flat compaction carries all resource_spans, while the unit a
\* first step returned is gzip data that does not decode, so the second
\* step keeps the other unit's resource_spans only: c's on the left, a's on
\* the right; source and endpoint are a's in every case.
C28_Associative ==
    AllDecodable =>
        /\ Carries(kOut[1].flat, SpansOfAll)
        /\ kCfg[1].compression = NoCompression =>
              /\ Carries(kOut[1].left, SpansOfAll)
              /\ Carries(kOut[1].right, SpansOfAll)
        /\ kCfg[1].compression = Gzip =>
              /\ Carries(kOut[1].left, ExpectedSpans(<<kBatch[1][3]>>))
              /\ Carries(kOut[1].right, ExpectedSpans(<<kBatch[1][1]>>))

C28_Witness ==
    /\ AllDecodable
    /\ kCfg[1].compression = NoCompression
    /\ kBatch[1] = <<UnitA, UnitB, UnitEmpty>>
    /\ Len(SpansOfAll) >= 2

\* ------------------------------------------------------------------------
\* Units of a live-tail session that ends
\* ------------------------------------------------------------------------
\* the units of the flushed batches, in flush order: a flush starts with
\* display_console when the console is enabled, with send_batch otherwise
FlushedUnits ==
    IF console_enabled(tArgs[1]) THEN UnitsOf("display_console") ELSE UnitsOf("send_batch")

\* C24: when the session has ended, by stream closure, stream error or
\* render error, every unit that was put in the buffer has been in exactly
\* one flushed batch, and the flushed batches hold the units in the order
\* of their arrival.
C24_NoUnitLost ==
    (tpc = "exit" /\ tArgs # None) => FlushedUnits = [i \in 1..tRecv |-> i]

\* the same for the sessions that do not end by a stream error
C24_WithoutStreamError ==
    (tpc = "exit" /\ tArgs # None /\ tResult # Some(Err("stream error")))
        => FlushedUnits = [i \in 1..tRecv |-> i]

\* ------------------------------------------------------------------------
\* The minimum event level is read once
\* ------------------------------------------------------------------------
\* the level the claim derives from an environment
LevelOf(e) ==
    LET v == IF e["AWS_LAMBDA_LOG_LEVEL"] # None THEN e["AWS_LAMBDA_LOG_LEVEL"]
             ELSE e["LOG_LEVEL"]
    IN  IF v = None THEN "Info"
        ELSE IF v[1] \in {<<"D", "E", "B", "U", "G">>} THEN "Debug"
        ELSE IF v[1] \in {<<"e", "r", "r", "o", "r">>} THEN "Error"
        ELSE IF v[1] \in {<<"W", "A", "R", "N">>} THEN "Warn"
        ELSE IF v[1] \in {<<"T", "r", "a", "c", "e">>} THEN "Trace"
        ELSE "Info"

\* C23: the minimum event level is the one the environment gave at the
\* first call (AWS_LAMBDA_LOG_LEVEL if set, else LOG_LEVEL, else INFO;
\* case ignored; an unrecognised value gives INFO), and every call of
\* record_event, the first and all later ones, drops exactly the events
\* below that level whatever the environment holds by then.
C23_MinLevelReadOnce ==
    /\ (MIN_LEVEL = None) = (lCalls = <<>>)
    /\ lCalls # <<>> =>
          /\ minLevelEnv # None
          /\ MIN_LEVEL = Some(LevelOf(minLevelEnv[1]))
          /\ \A i \in 1..Len(lCalls) :
                (lCalls[i].outcome = "dropped")
                    = (EventLevel[lCalls[i].level] < EventLevel[LevelOf(minLevelEnv[1])])

\* a later call while the environment names another level
C23_Witness ==
    /\ Len(lCalls) = 2
    /\ LevelOf(minLevelEnv[1]) = "Error"
    /\ LevelOf(lenv) = "Trace"
    /\ lCalls[2].level = "Warn"
    /\ lCalls[2].outcome = "dropped"

\* ------------------------------------------------------------------------
\* Properties of the timeline renderer
\* ------------------------------------------------------------------------
\* the spans of the batch, each with its place (unit, position in the unit)
BatchPlaces ==
    { <<k, i>> \in (1..Len(rBatch[1])) \X (1..2) :
        rBatch[1][k].ok /\ i <= Len(rBatch[1][k].val) }
SpanAt(place) == rBatch[1][place[1]].val[place[2]]
DecodedTraceIds == { SpanAt(pl).trace_id : pl \in BatchPlaces }

\* C21: for a batch that is not empty, display_console prints as many
\* tables as there are distinct trace ids among the spans of the units
\* that decode, one for each of these trace ids; a unit that fails to
\* decode takes no table away, and no table is printed exactly when no
\* span was decoded.
C21_TablePerTrace ==
    rTables # None =>
        /\ DOMAIN rTables[1] = DecodedTraceIds
        /\ Cardinality(DOMAIN rTables[1]) = Cardinality(DecodedTraceIds)
        /\ (Cardinality(DOMAIN rTables[1]) = 0) = (BatchPlaces = {})

\* a unit that fails to decode stands before units of two traces
C21_Witness ==
    /\ rTables # None
    /\ Len(rBatch[1]) = 3
    /\ ~rBatch[1][1].ok
    /\ Cardinality(DOMAIN rTables[1]) = 2

\* the places of the spans of one trace, and the rows that show a span
PlacesOf(trace_id) == { pl \in BatchPlaces : SpanAt(pl).trace_id = trace_id }
RowsOf(trace_id, span) ==
    { i \in 1..Len(rTables[1][trace_id]) : rTables[1][trace_id][i].span = span }
\* the spans of the trace that have the span id id
WithId(trace_id, id) == { pl \in PlacesOf(trace_id) : SpanAt(pl).span_id = id }
\* a root in the words of the claim: no parent, or a parent id that no
\* span of the trace has
ClaimedRoot(trace_id, span) ==
    span.parent_span_id = 0 \/ WithId(trace_id, span.parent_span_id) = {}

\* C25: the table of a trace has exactly one row for each span of the
\* trace, the spans that share a span id and the spans on a cycle of
\* parent references included; the row of a root is at depth 0, the row
\* of any other span below depth 0.
C25_RowPerSpan ==
    rTables # None =>
        \A t \in DOMAIN rTables[1] :
            /\ Len(rTables[1][t]) = Cardinality(PlacesOf(t))
            /\ \A pl \in PlacesOf(t) :
                  /\ RowsOf(t, SpanAt(pl)) # {}
                  /\ \A i \in RowsOf(t, SpanAt(pl)) :
                        (rTables[1][t][i].depth = 0) = ClaimedRoot(t, SpanAt(pl))

\* the span ids of the trace are distinct and every span leads to a root
\* through its parents
RECURSIVE LeadsToRoot(_, _, _)
LeadsToRoot(trace_id, span, steps) ==
    \/ ClaimedRoot(trace_id, span)
    \/ /\ steps > 0
       /\ \E pl \in WithId(trace_id, span.parent_span_id) :
             LeadsToRoot(trace_id, SpanAt(pl), steps - 1)
WellFormed(trace_id) ==
    /\ \A pl \in PlacesOf(trace_id) :
          Cardinality(WithId(trace_id, SpanAt(pl).span_id)) = 1
    /\ \A pl \in PlacesOf(trace_id) : LeadsToRoot(trace_id, SpanAt(pl), 4)

\* the same for the traces without shared span ids and without cycles
C25_WellFormedTraces ==
    rTables # None =>
        \A t \in DOMAIN rTables[1] :
            WellFormed(t) =>
                /\ Len(rTables[1][t]) = Cardinality(PlacesOf(t))
                /\ \A pl \in PlacesOf(t) :
                      /\ Cardinality(RowsOf(t, SpanAt(pl))) = 1
                      /\ \A i \in RowsOf(t, SpanAt(pl)) :
                            (rTables[1][t][i].depth = 0) = ClaimedRoot(t, SpanAt(pl))

\* two rows of a table are siblings: both roots, or at the same depth
\* under the same parent (span_map holds one span for an id)
Siblings(r1, r2) ==
    /\ r1.depth = r2.depth
    /\ r1.depth = 0 \/ r1.span.parent_span_id = r2.span.parent_span_id
StartThenId(r1, r2) ==
    \/ r1.span.start_time_unix_nano < r2.span.start_time_unix_nano
    \/ /\ r1.span.start_time_unix_nano = r2.span.start_time_unix_nano
       /\ r1.span.span_id <= r2.span.span_id

\* C26: in every table the roots, and the children of every span, stand
\* in ascending order of start_time_unix_nano, and siblings of equal
\* start time in ascending order of span id, so that the rows of a batch
\* do not depend on the run.
C26_SortedSiblings ==
    rTables # None =>
        \A t \in DOMAIN rTables[1] :
            \A i, j \in 1..Len(rTables[1][t]) :
                (i < j /\ Siblings(rTables[1][t][i], rTables[1][t][j]))
                    => StartThenId(rTables[1][t][i], rTables[1][t][j])

\* the part about the start times alone
C26_SortedByStart ==
    rTables # None =>
        \A t \in DOMAIN rTables[1] :
            \A i, j \in 1..Len(rTables[1][t]) :
                (i < j /\ Siblings(rTables[1][t][i], rTables[1][t][j]))
                    => rTables[1][t][i].span.start_time_unix_nano
                          <= rTables[1][t][j].span.start_time_unix_nano

\* ------------------------------------------------------------------------
\* Termination of the hierarchy build
\* ------------------------------------------------------------------------
\* C29: for every batch, those with a span that names itself as parent
\* and those with a cycle of parent references included, building and
\* printing the hierarchy ends: the recursion never reaches the depth at
\* which it would go on without end, and no row is deeper than the trace
\* has spans.
C29_BoundedRecursion ==
    rTables # None =>
        \A t \in DOMAIN rTables[1] :
            \A i \in 1..Len(rTables[1][t]) :
                /\ ~rTables[1][t][i].overflow
                /\ rTables[1][t][i].depth < Cardinality(PlacesOf(t))

\* a span that is its own parent, next to a root with a child
C29_Witness ==
    /\ rTables # None
    /\ \E pl \in BatchPlaces : SpanAt(pl).parent_span_id = SpanAt(pl).span_id
    /\ \E t \in DOMAIN rTables[1] :
          \E i \in 1..Len(rTables[1][t]) : rTables[1][t][i].depth = 1

\* ------------------------------------------------------------------------
\* The timeline bar
\* ------------------------------------------------------------------------
\* cell i (from 0) of a bar of width W is filled: lo / D * W <= i + 1/2 and
\* i + 1/2 < hi / D * W, for a duration D > 0 of the trace
MidpointWithin(i, lo, hi, D, W) ==
    /\ 2 * lo * W <= (2 * i + 1) * D
    /\ (2 * i + 1) * D < 2 * hi * W

\* C27 as stated: render_bar returns W cells; for D > 0 cell i is filled
\* if and only if start_frac * W <= i + 0.5 < end_frac * W with
\* start_frac = (span start - trace start) / D and
\* end_frac = (span end - trace start) / D; for D = 0 no cell is filled.
C27_Original ==
    bBar # None =>
        /\ Len(bBar[1]) = bArgs[1].width
        /\ \A i \in 0..(bArgs[1].width - 1) :
              bBar[1][i + 1] =
                  /\ bArgs[1].trace_duration > 0
                  /\ MidpointWithin(i, bArgs[1].start - bArgs[1].trace_start,
                                    bArgs[1].end - bArgs[1].trace_start,
                                    bArgs[1].trace_duration, bArgs[1].width)

\* C27 amended: the same for the spans that do not start before the trace
\* start; a span that starts before it is drawn from cell 0 on with its
\* whole duration, that is with start_frac = 0 and
\* end_frac = (span end - span start) / D, and a span that ends before it
\* starts has no filled cell.
C27_Bar ==
    bBar # None =>
        /\ Len(bBar[1]) = bArgs[1].width
        /\ \A i \in 0..(bArgs[1].width - 1) :
              bBar[1][i + 1] =
                  /\ bArgs[1].trace_duration > 0
                  /\ bArgs[1].end > bArgs[1].start
                  /\ IF bArgs[1].start >= bArgs[1].trace_start
                     THEN MidpointWithin(i, bArgs[1].start - bArgs[1].trace_start,
                                         bArgs[1].end - bArgs[1].trace_start,
                                         bArgs[1].trace_duration, bArgs[1].width)
                     ELSE MidpointWithin(i, 0, bArgs[1].end - bArgs[1].start,
                                         bArgs[1].trace_duration, bArgs[1].width)

\* a span that starts before the trace start, with filled and empty cells
C27_Witness ==
    /\ bBar # None
    /\ bArgs[1].start < bArgs[1].trace_start
    /\ \E i, j \in 1..Len(bBar[1]) : bBar[1][i] /\ ~bBar[1][j]
====
